---- MODULE Spec2Model ----
(***************************************************************************)
(* State-machine model of the WAF audit-log ingestion loop                 *)
(* (src/log_processor/log_processor.py): main polls the audit log, reads   *)
(* the unread suffix, repairs and decodes each line, builds one WafLog and *)
(* one SecurityEvent per transaction, persists the batch in one session    *)
(* and writes the byte offset to the state file.                           *)
(***************************************************************************)
EXTENDS Integers, Sequences, FiniteSets, TLC

\* ---------------------------------------------------------------- bounds
MaxLines == 3       \* lines the audit log holds at most
MaxUid == 2         \* distinct transaction unique ids
LineLen == 2        \* bytes of one complete line (terminator included)
MaxMsgs == 2        \* rule matches (messages) of one transaction
MaxAttempts == 21   \* connection attempts of one run that are followed

\* get_db_session: attempts of one call before the error is raised
max_retries == 10

Uids == 1..MaxUid

VARIABLES
    log_file,          \* /var/log/modsecurity/audit.log: sequence of lines
    state_file,        \* /app/data/log_processor.state: <<>> absent, <<n>> offset
    waf_logs,          \* committed rows of table waf_logs, per log_unique_id
    security_events,   \* committed rows of table security_events, per transaction
    pc,                \* position of the process in main / process_new_logs
    last_position,     \* main's in-memory offset
    new_position,      \* process_new_logs: f.tell() after the read loop
    events_to_commit,  \* process_new_logs: built results of this poll
    events_created,    \* process_new_logs: counter of flushed security events
    new_events,        \* process_new_logs: events collected for notification
    replay,            \* history: store snapshot taken when a replay begins
    writers,           \* two processes on one log: each one's batch loop
    conn,              \* get_db_session: SessionLocal and the retry loop
    delivered,         \* events the backend has received from the notifier
    transaction,       \* attack_detection: the audit-log entry under analysis
    analysis,          \* attack_detection: result of analyze_log_entry
    event,             \* parse_log_entry: the events built from the entry
    log_exists,        \* os.path.exists(LOG_FILE_PATH)
    state_text,        \* the state file as text: its characters, if any
    unwritten,         \* bytes of the log's last line not yet written
    active_connections \* the backend's websocket clients, with what
                       \* each was sent

\* state the single-process ingestion loop below never touches
detached == <<writers, conn, delivered, transaction, analysis, event,
          log_exists, state_text, unwritten,
          active_connections>>

vars == <<log_file, state_file, waf_logs, security_events, pc, last_position,
          new_position, events_to_commit, events_created, new_events, replay,
          writers, conn, delivered, transaction, analysis, event,
          log_exists, state_text, unwritten,
          active_connections>>

\* ------------------------------------------------------------ the log file
\* A line of the audit log: the transaction's unique_id and the defect of
\* its text ("none": valid JSON; "ver_dq": the doubled quote after the
\* OWASP_CRS version string; "comp": a broken components array with doubled
\* quotes; "garbage": not JSON and not a known artifact), and the method
\* and uri of its request section ("null": the key is absent).
\* time_stamp is "fixed" (the fixed textual format), "absent" or "other"
GoodLines ==
    [uid : Uids, defect : {"none"}, len : {LineLen}, method : {"GET"},
     uri : {"/"}, time_stamp : {"fixed"}]
BadLines ==
    [uid : {1}, defect : {"ver_dq", "comp", "garbage"}, len : {LineLen},
     method : {"GET"}, uri : {"/"}, time_stamp : {"fixed"}]
LineInputs == GoodLines \cup BadLines

\* valid JSON whose request section lacks the method, has an empty uri, or
\* both
FieldlessLines ==
    [uid : {1}, defect : {"none"}, len : {LineLen}, method : {"GET", "null"},
     uri : {"/", ""}, time_stamp : {"fixed"}] \ GoodLines

\* valid JSON with method and uri whose time_stamp is missing or in another
\* format
UntimedLines ==
    [uid : Uids, defect : {"none"}, len : {LineLen}, method : {"GET"},
     uri : {"/"}, time_stamp : {"absent", "other"}]
StampInputs == GoodLines \cup UntimedLines
FieldInputs == GoodLines \cup FieldlessLines

RECURSIVE FileSize(_)
FileSize(f) == IF f = <<>> THEN 0 ELSE Head(f).len + FileSize(Tail(f))

\* the file as a reader finds it while the last n bytes of its last line
\* are not written yet: that line is a fragment without terminator
Visible(f, n) ==
    IF n = 0 THEN f
    ELSE [f EXCEPT ![Len(f)] = [@ EXCEPT !.defect = "garbage",
                                         !.len = @ - n]]

\* byte offset at which line i of f starts / ends
LineStart(f, i) == FileSize(SubSeq(f, 1, i - 1))
LineEnd(f, i) == FileSize(SubSeq(f, 1, i))

\* ------------------------------------------------------------ line repair
\* first pass: the two str.replace calls and the components regex that
\* needs a backslash before the doubled quotes
RepairFirst(defect) == IF defect = "ver_dq" THEN "none" ELSE defect

\* second pass: replace the whole components array, collapse doubled quotes
RepairSecond(defect) == IF defect \in {"ver_dq", "comp"} THEN "none" ELSE defect

\* json.loads succeeds
Decodes(defect) == defect = "none"

\* the line yields a decoded document after at most two repair passes
LineParses(line) ==
    LET d1 == RepairFirst(line.defect)
    IN  IF Decodes(d1) THEN TRUE ELSE Decodes(RepairSecond(d1))

\* the text the loop sees for line i when reading from offset pos: the whole
\* line, or a fragment when pos falls inside the line
LineAsRead(f, i, pos) ==
    IF LineStart(f, i) >= pos THEN f[i]
    ELSE [f[i] EXCEPT !.defect = "garbage"]

\* "not parsed_data.get('method') or not parsed_data.get('uri')" is false
RequiredFields(line) ==
    line.method \notin {"", "null"} /\ line.uri \notin {"", "null"}

\* the line gives a result: it decodes and carries method and uri
WellFormed(line) == LineParses(line) /\ RequiredFields(line)

\* _parse_timestamp: the datetime, or None when strptime raises
NoTimestamp == "None"
ParseTimestamp(time_stamp) ==
    IF time_stamp = "fixed" THEN "datetime" ELSE NoTimestamp

\* the pair of records parse_log_entry builds for one transaction
BuildResult(line) ==
    [log_unique_id |-> line.uid, timestamp |-> ParseTimestamp(line.time_stamp)]

\* variant: no validation of the required fields
ParseLogEntryUnvalidated(line) == <<BuildResult(line)>>

\* parse_log_entry on a decoded line: None (no result) when method or uri
\* is missing, else the result
ParseLogEntry(line) ==
    IF RequiredFields(line) THEN <<BuildResult(line)>> ELSE <<>>

\* variant: an undecodable line ends the read loop instead of being skipped
RECURSIVE ReadLoopAbort(_, _, _)
ReadLoopAbort(f, i, pos) ==
    IF i > Len(f) THEN <<>>
    ELSE IF LineEnd(f, i) <= pos THEN ReadLoopAbort(f, i + 1, pos)
    ELSE LET line == LineAsRead(f, i, pos)
         IN  IF LineParses(line)
             THEN ParseLogEntry(line) \o ReadLoopAbort(f, i + 1, pos)
             ELSE <<>>

\* the read loop of process_new_logs: results of the lines from pos to EOF
RECURSIVE ReadLoop(_, _, _)
ReadLoop(f, i, pos) ==
    IF i > Len(f) THEN <<>>
    ELSE IF LineEnd(f, i) <= pos THEN ReadLoop(f, i + 1, pos)
    ELSE LET line == LineAsRead(f, i, pos)
         IN  IF LineParses(line)
             THEN ParseLogEntry(line) \o ReadLoop(f, i + 1, pos)
             ELSE ReadLoop(f, i + 1, pos)

\* ------------------------------------------------------------ the store
EmptyTable == [u \in Uids |-> 0]

RECURSIVE Occurrences(_, _)
Occurrences(rows, u) ==
    IF rows = <<>> THEN 0
    ELSE (IF Head(rows) = u THEN 1 ELSE 0) + Occurrences(Tail(rows), u)

InsertRows(table, rows) == [u \in Uids |-> table[u] + Occurrences(rows, u)]

\* variant: the constraint only sees the rows of the running transaction
UniqueViolationPendingOnly(uid, table, pending) ==
    Occurrences(pending, uid) > 0

\* variant: the column is declared without unique=True
UniqueViolationNone(uid, table, pending) == FALSE

\* unique=True on waf_logs.log_unique_id: the flush of a row raises
\* IntegrityError when the key is committed or pending in the transaction
UniqueViolation(uid, table, pending) ==
    table[uid] > 0 \/ Occurrences(pending, uid) > 0

\* session state while the batch loop runs: committed tables, the rows
\* flushed but not committed, and the loop's local counters
NewSession(waf, sec) ==
    [waf |-> waf, sec |-> sec, pending_waf |-> <<>>, pending_sec |-> <<>>,
     created |-> 0, collected |-> <<>>]

\* db.rollback(); db = get_db_session()
Rollback(s) == [s EXCEPT !.pending_waf = <<>>, !.pending_sec = <<>>]

\* variant: the legacy row is committed on its own right after its flush
ProcessResultAutocommit(s, result) ==
    IF UniqueViolation(result.log_unique_id, s.waf, s.pending_waf)
    THEN Rollback(s)
    ELSE [s EXCEPT !.waf = InsertRows(@, <<result.log_unique_id>>),
                   !.pending_sec = Append(@, result.log_unique_id),
                   !.created = @ + 1,
                   !.collected = Append(@, result.log_unique_id)]

\* variant: a duplicate legacy row is skipped without rollback and without
\* "continue", so its security event is still added
ProcessResultEventAnyway(s, result) ==
    IF UniqueViolation(result.log_unique_id, s.waf, s.pending_waf)
    THEN [s EXCEPT !.pending_sec = Append(@, result.log_unique_id),
                   !.created = @ + 1,
                   !.collected = Append(@, result.log_unique_id)]
    ELSE [s EXCEPT !.pending_waf = Append(@, result.log_unique_id),
                   !.pending_sec = Append(@, result.log_unique_id),
                   !.created = @ + 1,
                   !.collected = Append(@, result.log_unique_id)]

\* nullable=False on waf_logs.timestamp: the flush of a row without
\* timestamp raises IntegrityError
NotNullViolation(result) == result.timestamp = NoTimestamp

\* one iteration of "for result in events_to_commit"
ProcessResult(s, result) ==
    IF \/ NotNullViolation(result)
       \/ UniqueViolation(result.log_unique_id, s.waf, s.pending_waf)
    THEN Rollback(s)
    ELSE [s EXCEPT !.pending_waf = Append(@, result.log_unique_id),
                   !.pending_sec = Append(@, result.log_unique_id),
                   !.created = @ + 1,
                   !.collected = Append(@, result.log_unique_id)]

RECURSIVE BatchLoop(_, _)
BatchLoop(s, results) ==
    IF results = <<>> THEN s
    ELSE BatchLoop(ProcessResult(s, Head(results)), Tail(results))

\* db.commit()
Commit(s) ==
    [s EXCEPT !.waf = InsertRows(@, s.pending_waf),
              !.sec = InsertRows(@, s.pending_sec),
              !.pending_waf = <<>>, !.pending_sec = <<>>]

\* ------------------------------------------------------------ checkpoint
\* int(f.read().strip()) with the fallback of main
LoadState(sf) == IF sf = <<>> THEN 0 ELSE sf[1]

\* history of a replay: <<>>, or one record. kind "batch": the log has not
\* changed since the current poll read it; kind "crash": the store as it
\* was when the process died between the commit of a batch read from the
\* persisted checkpoint and the checkpoint write; kind "reset": the store
\* as it was when the checkpoint of a fully ingested log (all of it behind
\* the checkpoint, its transactions stored) was reset; done: the first poll
\* after that has written its checkpoint
NoReplay == <<>>
BatchMark ==
    <<[kind |-> "batch", waf |-> EmptyTable, sec |-> EmptyTable, upto |-> 0,
       done |-> FALSE]>>
Replaying == replay # NoReplay /\ replay[1].kind # "batch" /\ ~replay[1].done

\* ------------------------------------------------------------ rule files
\* (src/log_processor/attack_detection.py)
\* The name of a rule file is the sequence of the words of its stem, which
\* the name joins with "-"; the extension ".conf" follows the last word and
\* <<>> is the empty string. A pattern made of words is the sequence of its
\* words. An attack type is the sequence of the words its name joins with
\* "_" (<<"UNKNOWN", "ATTACK">> is UNKNOWN_ATTACK).
Numbers ==
    {"100", "912", "913", "920", "922", "923", "930", "931", "932", "933",
     "934", "941", "942", "943", "944", "949", "953"}

\* str.upper() on a word
Upper(word) ==
    CASE word = "attack" -> "ATTACK"
      [] word = "scanner" -> "SCANNER"
      [] word = "protocol" -> "PROTOCOL"
      [] word = "local" -> "LOCAL"
      [] word = "rules" -> "RULES"
      [] OTHER -> word

\* the word consists of the letters A-Z
IsUpperWord(word) == word \notin Numbers /\ Upper(word) = word

\* "WORD in rule_file.upper()"
ContainsWord(file, word) == \E i \in 1..Len(file) : Upper(file[i]) = word

\* re.search of a pattern without operators
Search(pattern, file) ==
    \E i \in 1..Len(file) :
        /\ i + Len(pattern) - 1 <= Len(file)
        /\ SubSeq(file, i, i + Len(pattern) - 1) = pattern

\* positions of the word ATTACK that a pattern "PREFIX-\d+.*-ATTACK-"
\* matches up to: a prefix word, a number, anything, "-ATTACK-"
AttackPositions(prefixes, file) ==
    {j \in 1..Len(file) :
        /\ file[j] = "ATTACK"
        /\ j < Len(file)
        /\ \E i \in 1..Len(file) :
              /\ file[i] \in prefixes
              /\ i + 2 <= j
              /\ file[i + 1] \in Numbers}

ATTACK_RULE_PATTERNS ==
    <<[type |-> <<"XSS">>,
       pattern |-> <<"REQUEST", "941", "APPLICATION", "ATTACK", "XSS">>],
      [type |-> <<"SQLI">>,
       pattern |-> <<"REQUEST", "942", "APPLICATION", "ATTACK", "SQLI">>],
      [type |-> <<"LFI">>,
       pattern |-> <<"REQUEST", "930", "APPLICATION", "ATTACK", "LFI">>],
      [type |-> <<"RFI">>,
       pattern |-> <<"REQUEST", "931", "APPLICATION", "ATTACK", "RFI">>],
      [type |-> <<"RCE">>,
       pattern |-> <<"REQUEST", "932", "APPLICATION", "ATTACK", "RCE">>],
      [type |-> <<"PHP">>,
       pattern |-> <<"REQUEST", "933", "APPLICATION", "ATTACK", "PHP">>],
      [type |-> <<"NODEJS">>,
       pattern |-> <<"REQUEST", "934", "APPLICATION", "ATTACK", "NODEJS">>],
      [type |-> <<"JAVA">>,
       pattern |-> <<"REQUEST", "944", "APPLICATION", "ATTACK", "JAVA">>],
      [type |-> <<"SCANNER">>,
       pattern |-> <<"REQUEST", "913", "SCANNER", "DETECTION">>],
      [type |-> <<"SESSION">>,
       pattern |-> <<"REQUEST", "943", "APPLICATION", "ATTACK", "SESSION">>],
      [type |-> <<"PROTOCOL">>,
       pattern |-> <<"REQUEST", "920", "PROTOCOL", "ENFORCEMENT">>],
      [type |-> <<"MULTIPART">>,
       pattern |-> <<"REQUEST", "922", "MULTIPART", "ATTACK">>],
      [type |-> <<"XML">>,
       pattern |-> <<"REQUEST", "923", "REQUEST", "DATA">>],
      [type |-> <<"XXE">>,
       pattern |-> <<"REQUEST", "912", "DOS", "PROTECTION">>]>>

\* GENERIC_ATTACK_PATTERN = r'REQUEST-\d+.*-ATTACK-'
GENERIC_ATTACK_PATTERN(file) == AttackPositions({"REQUEST"}, file)

\* CUSTOM_ATTACK_PATTERNS: CUSTOM-, LOCAL-, SITE-\d+.*-ATTACK-
CUSTOM_ATTACK_PATTERNS(file) ==
    AttackPositions({"CUSTOM", "LOCAL", "SITE"}, file)

BLOCKING_RULE_ID == "949110"
EVALUATION_RULES == {"949110", "949111", "980130", "980140", "980170"}

\* the words from position k on that consist of A-Z
RECURSIVE UpperRun(_, _)
UpperRun(file, k) ==
    IF k > Len(file) \/ ~IsUpperWord(file[k]) THEN <<>>
    ELSE <<file[k]>> \o UpperRun(file, k + 1)

\* match.group of "...-ATTACK-([A-Z-]+)": the greedy ".*" takes the last
\* ATTACK that an upper-case word follows; <<>> when the search fails
GroupAfterAttack(file, positions) ==
    LET js == {j \in positions : IsUpperWord(file[j + 1])}
    IN  IF js = {} THEN <<>>
        ELSE UpperRun(file, (CHOOSE j \in js : \A k \in js : k <= j) + 1)

NoType == <<>>

\* _classify_attack_type(rule_filename)
ClassifyAttackType(file) ==
    LET specific == {k \in 1..Len(ATTACK_RULE_PATTERNS) :
                        Search(ATTACK_RULE_PATTERNS[k].pattern, file)}
    IN  IF specific # {}
        THEN ATTACK_RULE_PATTERNS[CHOOSE k \in specific :
                                     \A m \in specific : k <= m].type
        ELSE IF GENERIC_ATTACK_PATTERN(file) # {}
        THEN LET group == GroupAfterAttack(file, GENERIC_ATTACK_PATTERN(file))
             IN  IF group # <<>> THEN group ELSE <<"UNKNOWN", "ATTACK">>
        ELSE IF CUSTOM_ATTACK_PATTERNS(file) # {}
        THEN LET group == GroupAfterAttack(file, CUSTOM_ATTACK_PATTERNS(file))
             IN  IF group # <<>> THEN <<"CUSTOM">> \o group
                 ELSE <<"CUSTOM", "ATTACK">>
        ELSE IF ContainsWord(file, "ATTACK") THEN <<"ATTACK">>
        ELSE NoType

\* ------------------------------------------------------------ messages
\* A text that int() is applied to: a decimal number or something else
Number(n) == [int |-> TRUE, val |-> n]
Word == [int |-> FALSE, val |-> 0]

\* int(text): <<n>>, or <<>> for ValueError
ParseInt(text) == IF text.int THEN <<text.val>> ELSE <<>>

\* details.data: whether it contains "Inbound Anomaly Score", and the text
\* between the first "Score " and the next blank (<<>>: no "Score ")
NoData == [marker |-> FALSE, after |-> <<>>]
DataScore(n) == [marker |-> TRUE, after |-> <<Number(n)>>]
DataTotalScore == [marker |-> TRUE, after |-> <<Word>>]

\* the parts of a message the score is read from: message is "score" when
\* its text contains "Inbound Anomaly Score"; match is <<>> without
\* "Value: `", else the text between "Value: `" and the next "'"
ScoreCarriers ==
    {[message |-> "other", match |-> <<>>, data |-> NoData],
     [message |-> "score", match |-> <<Number(10)>>, data |-> NoData],
     [message |-> "score", match |-> <<Number(3)>>, data |-> DataTotalScore],
     [message |-> "score", match |-> <<>>, data |-> DataScore(10)],
     [message |-> "other", match |-> <<>>, data |-> DataScore(7)],
     [message |-> "score", match |-> <<Word>>, data |-> NoData]}

\* rule files of the matches; their directory holds none of the words the
\* engine looks for
XssFile == <<"REQUEST", "941", "APPLICATION", "ATTACK", "XSS">>
SqliFile == <<"REQUEST", "942", "APPLICATION", "ATTACK", "SQLI">>
BlockingFile == <<"REQUEST", "949", "BLOCKING", "EVALUATION">>
RuleFiles ==
    {<<>>, XssFile, SqliFile, BlockingFile,
     <<"REQUEST", "913", "SCANNER", "DETECTION">>,
     <<"REQUEST", "922", "MULTIPART", "ATTACK">>,
     <<"REQUEST", "934", "APPLICATION", "ATTACK", "GENERIC">>,
     <<"RESPONSE", "953", "DATA", "LEAKAGES", "PHP">>,
     <<"local", "scanner", "rules">>}

\* a message of transaction.messages: details.ruleId ("": no ruleId),
\* details.file, details.severity and the score carriers.
\* matches of signature rules, and matches of the evaluation rules
SignatureMatches ==
    {[ruleId |-> id, file |-> file, severity |-> Number(2),
      message |-> "other", match |-> <<>>, data |-> NoData] :
        id \in {"941100", ""}, file \in RuleFiles}
EvaluationMatches ==
    {[ruleId |-> id, file |-> BlockingFile, severity |-> Number(0),
      message |-> c.message, match |-> c.match, data |-> c.data] :
        id \in {"949110", "980130"}, c \in ScoreCarriers}
    \cup
    {[ruleId |-> "949110", file |-> XssFile, severity |-> Number(0),
      message |-> "other", match |-> <<>>, data |-> NoData]}
MessageInputs == SignatureMatches \cup EvaluationMatches

StatusCodes == {200, 403}

\* the audit-log entries under analysis
Transactions ==
    [messages : UNION {[1..n -> MessageInputs] : n \in 0..MaxMsgs},
     http_code : StatusCodes]

NoTransaction == [messages |-> <<>>, http_code |-> 0]

\* ------------------------------------------------------------ indicators
Max(a, b) == IF a >= b THEN a ELSE b

\* a rule id outside EVALUATION_RULES whose file names ATTACK, SCANNER or
\* PROTOCOL in any case (lines 138-146)
ActualViolation(msg) ==
    /\ msg.ruleId # ""
    /\ msg.ruleId \notin EVALUATION_RULES
    /\ msg.file # <<>>
    /\ \/ ContainsWord(msg.file, "ATTACK")
       \/ ContainsWord(msg.file, "SCANNER")
       \/ ContainsWord(msg.file, "PROTOCOL")

HasActualViolations(messages) ==
    \E i \in 1..Len(messages) : ActualViolation(messages[i])

\* the types of the rule files of all messages (lines 148-155)
AttackTypes(messages) ==
    {ClassifyAttackType(messages[i].file) :
        i \in {k \in 1..Len(messages) : messages[k].file # <<>>}} \ {NoType}

\* the rule ids in message order
RECURSIVE RuleIds(_)
RuleIds(messages) ==
    IF messages = <<>> THEN <<>>
    ELSE (IF Head(messages).ruleId # "" THEN <<Head(messages).ruleId>>
          ELSE <<>>) \o RuleIds(Tail(messages))

\* int(severity) if severity.isdigit() else 0, summed
RECURSIVE TotalSeverity(_)
TotalSeverity(messages) ==
    IF messages = <<>> THEN 0
    ELSE (IF Head(messages).severity.int THEN Head(messages).severity.val
          ELSE 0) + TotalSeverity(Tail(messages))

\* variant: the value is cut at the wrong quote and never parses
ScoreFromUnparsed(texts, score) == score

\* max(score, int(text)) inside "try: ... except: pass"
ScoreFrom(texts, score) ==
    IF texts # <<>> /\ ParseInt(texts[1]) # <<>>
    THEN Max(score, ParseInt(texts[1])[1])
    ELSE score

\* lines 164-182: the match text of a scoring message, or else ("elif")
\* the data field
IndicatorScoreStep(msg, score) ==
    IF msg.message = "score" THEN ScoreFrom(msg.match, score)
    ELSE IF msg.data.marker THEN ScoreFrom(msg.data.after, score)
    ELSE score

RECURSIVE IndicatorScore(_, _)
IndicatorScore(messages, score) ==
    IF messages = <<>> THEN score
    ELSE IndicatorScore(Tail(messages),
                        IndicatorScoreStep(Head(messages), score))

\* variant: an attack needs an identified type
IsAttackTypedOnly(messages) == AttackTypes(messages) # {}

\* variant: a classified type alone does not make an attack
IsAttackViolationsOnly(messages) == HasActualViolations(messages)

\* line 195
IsAttack(messages) ==
    \/ AttackTypes(messages) # {}
    \/ (HasActualViolations(messages) /\ IndicatorScore(messages, 0) >= 5)
    \/ HasActualViolations(messages)

\* _analyze_attack_indicators
AnalyzeAttackIndicators(messages) ==
    [attack_types |-> AttackTypes(messages),
     rule_ids |-> RuleIds(messages),
     rule_files |-> {messages[i].file : i \in
                       {k \in 1..Len(messages) : messages[k].file # <<>>}},
     severity_score |-> TotalSeverity(messages),
     anomaly_score |-> IndicatorScore(messages, 0),
     is_attack |-> IsAttack(messages)]

\* ------------------------------------------------------------ blocking
HasBlockingRule(messages) ==
    \E i \in 1..Len(messages) : messages[i].ruleId = BLOCKING_RULE_ID

\* variant: the chain is applied to the matches of evaluation rules too
AttackViolationAnyRule(msg) ==
    /\ msg.ruleId # ""
    /\ IF msg.file # <<>> /\ GENERIC_ATTACK_PATTERN(msg.file) # {} THEN TRUE
       ELSE IF msg.file # <<>> THEN CUSTOM_ATTACK_PATTERNS(msg.file) # {}
       ELSE FALSE

\* lines 243-275: the if / elif chain on the rule file of a match whose id
\* is outside EVALUATION_RULES
AttackViolation(msg) ==
    /\ msg.ruleId # ""
    /\ msg.ruleId \notin EVALUATION_RULES
    /\ IF msg.file # <<>> /\ GENERIC_ATTACK_PATTERN(msg.file) # {} THEN TRUE
       ELSE IF msg.file # <<>> THEN CUSTOM_ATTACK_PATTERNS(msg.file) # {}
       ELSE IF /\ msg.file # <<>>
               /\ \/ ContainsWord(msg.file, "SCANNER")
                  \/ ContainsWord(msg.file, "PROTOCOL")
                  \/ ContainsWord(msg.file, "MULTIPART")
            THEN TRUE
       ELSE FALSE

HasAttackViolations(messages) ==
    \E i \in 1..Len(messages) : AttackViolation(messages[i])

\* lines 278-297: the match text of a scoring message, and then ("if") the
\* data field of every message
BlockingScoreStep(msg, score) ==
    LET s1 == IF msg.message = "score" THEN ScoreFrom(msg.match, score)
              ELSE score
    IN  IF msg.data.marker THEN ScoreFrom(msg.data.after, s1) ELSE s1

RECURSIVE BlockingScore(_, _)
BlockingScore(messages, score) ==
    IF messages = <<>> THEN score
    ELSE BlockingScore(Tail(messages),
                       BlockingScoreStep(Head(messages), score))

\* variant: only the blocking rule with its score counts
IsBlockedThresholdOnly(messages, status_code) ==
    HasBlockingRule(messages) /\ BlockingScore(messages, 0) >= 5

\* lines 304-312
IsBlocked(messages, status_code) ==
    \/ (HasBlockingRule(messages) /\ BlockingScore(messages, 0) >= 5)
    \/ (HasAttackViolations(messages) /\ status_code = 403)

\* analyze_log_entry: the merged result
AnalyzeLogEntry(t) ==
    LET attack_analysis == AnalyzeAttackIndicators(t.messages)
    IN  [status_code |-> t.http_code,
         attack_types |-> attack_analysis.attack_types,
         rule_ids |-> attack_analysis.rule_ids,
         rule_files |-> attack_analysis.rule_files,
         severity_score |-> attack_analysis.severity_score,
         anomaly_score |-> attack_analysis.anomaly_score,
         is_attack |-> attack_analysis.is_attack,
         is_blocked |-> IsBlocked(t.messages, t.http_code),
         done |-> TRUE]

NoAnalysis ==
    [status_code |-> 0, attack_types |-> {}, rule_ids |-> <<>>,
     rule_files |-> {}, severity_score |-> 0, anomaly_score |-> 0,
     is_attack |-> FALSE, is_blocked |-> FALSE, done |-> FALSE]

\* the engine is applied to the entry
Analyze ==
    /\ ~analysis.done
    /\ analysis' = AnalyzeLogEntry(transaction)
    /\ UNCHANGED <<log_file, state_file, waf_logs, security_events, pc,
                   last_position, new_position, events_to_commit,
                   events_created, new_events, replay>>
    /\ UNCHANGED <<writers, conn, delivered, transaction, event,
          log_exists, state_text, unwritten,
          active_connections>>

\* ------------------------------------------------------------ the event
\* (src/log_processor/log_processor.py, parse_log_entry and its helpers)
\* list(attack_types) of a set of strings: the order follows the string
\* hashes, which CPython draws per process (hash randomization); two seeds
\* stand for two processes
HashSeeds == {"a", "b"}

RECURSIVE SetToList(_)
SetToList(set) ==
    IF set = {} THEN <<>>
    ELSE LET x == CHOOSE y \in set : TRUE
         IN  <<x>> \o SetToList(set \ {x})

Reverse(list) == [i \in 1..Len(list) |-> list[Len(list) + 1 - i]]

ListOfSet(set, seed) ==
    IF seed = "a" THEN SetToList(set) ELSE Reverse(SetToList(set))

\* variant: the blocked flag is ignored
DetermineSeverityUnblocked(anomaly_score, is_blocked, attack_types) ==
    IF anomaly_score >= 100 THEN "critical"
    ELSE IF anomaly_score >= 50 THEN "high"
    ELSE IF anomaly_score >= 20 \/ attack_types # <<>> THEN "medium"
    ELSE "low"

\* determine_severity
DetermineSeverity(anomaly_score, is_blocked, attack_types) ==
    IF anomaly_score >= 100 \/ (is_blocked /\ Len(attack_types) > 2)
    THEN "critical"
    ELSE IF anomaly_score >= 50 \/ (is_blocked /\ attack_types # <<>>)
    THEN "high"
    ELSE IF anomaly_score >= 20 \/ attack_types # <<>> THEN "medium"
    ELSE "low"

Min(a, b) == IF a <= b THEN a ELSE b

\* variant: the final min(100.0, score) is missing
CalculateRiskScoreUnclamped(parsed_data, attack_types) ==
    LET score == Min(parsed_data.anomaly_score * 2, 50)
                 + Len(attack_types) * 15
                 + parsed_data.severity_score * 5
    IN  IF parsed_data.is_blocked THEN score * 7 ELSE score * 10

\* calculate_risk_score, in tenths: the sum is a whole number and the
\* factor 0.7 makes it a whole number of tenths
CalculateRiskScore(parsed_data, attack_types) ==
    LET score == Min(parsed_data.anomaly_score * 2, 50)
                 + Len(attack_types) * 15
                 + parsed_data.severity_score * 5
    IN  Min(100 * 10, IF parsed_data.is_blocked THEN score * 7 ELSE score * 10)

\* variant: the tiers start above 10 and above 5
PrimaryAttackTypeStrictTiers(parsed_data, attack_types) ==
    IF attack_types # <<>> THEN attack_types[1]
    ELSE IF parsed_data.is_attack
    THEN IF parsed_data.anomaly_score > 10 THEN <<"HIGH", "RISK">>
         ELSE IF parsed_data.anomaly_score > 5 THEN <<"SUSPICIOUS">>
         ELSE <<"ANOMALY">>
    ELSE NoType

\* variant: the generic label is given to every entry without a type
PrimaryAttackTypeAlways(parsed_data, attack_types) ==
    IF attack_types # <<>> THEN attack_types[1]
    ELSE IF parsed_data.anomaly_score >= 10 THEN <<"HIGH", "RISK">>
    ELSE IF parsed_data.anomaly_score >= 5 THEN <<"SUSPICIOUS">>
    ELSE <<"ANOMALY">>

\* parse_log_entry, lines 197-212: attack_type (NoType is None)
PrimaryAttackType(parsed_data, attack_types) ==
    IF attack_types # <<>> THEN attack_types[1]
    ELSE IF parsed_data.is_attack
    THEN IF parsed_data.anomaly_score >= 10 THEN <<"HIGH", "RISK">>
         ELSE IF parsed_data.anomaly_score >= 5 THEN <<"SUSPICIOUS">>
         ELSE <<"ANOMALY">>
    ELSE NoType

\* the SecurityEvent of parse_log_entry without its event_id (a fresh
\* uuid4); attack_types is the list stored in the legacy row
BuildSecurityEvent(parsed_data, seed) ==
    LET attack_types == ListOfSet(parsed_data.attack_types, seed)
    IN  [attack_type |-> PrimaryAttackType(parsed_data, attack_types),
         attack_types |-> attack_types,
         severity |-> DetermineSeverity(parsed_data.anomaly_score,
                                        parsed_data.is_blocked, attack_types),
         risk_score |-> CalculateRiskScore(parsed_data, attack_types),
         is_attack |-> parsed_data.is_attack,
         is_blocked |-> parsed_data.is_blocked,
         anomaly_score |-> parsed_data.anomaly_score,
         severity_score |-> parsed_data.severity_score,
         rules_matched |-> parsed_data.rule_ids,
         rule_files |-> ListOfSet(parsed_data.rule_files, seed),
         status_code |-> parsed_data.status_code]

\* one run of parse_log_entry on the entry, in a process with some hash
\* seed: analyze_log_entry, then the event
ParseLogEntryRun ==
    /\ LET parsed_data == AnalyzeLogEntry(transaction)
       IN  /\ analysis' = parsed_data
           /\ \E seed \in HashSeeds :
                 event' = event \cup {BuildSecurityEvent(parsed_data, seed)}
    /\ UNCHANGED <<log_file, state_file, waf_logs, security_events, pc,
                   last_position, new_position, events_to_commit,
                   events_created, new_events, replay>>
    /\ UNCHANGED <<writers, conn, delivered, transaction, log_exists,
                   state_text, unwritten,
          active_connections>>

\* lines 197-291 of parse_log_entry on a given classification result
BuildEventRun ==
    /\ analysis.done
    /\ \E seed \in HashSeeds :
          event' = event \cup {BuildSecurityEvent(analysis, seed)}
    /\ UNCHANGED <<log_file, state_file, waf_logs, security_events, pc,
                   last_position, new_position, events_to_commit,
                   events_created, new_events, replay>>
    /\ UNCHANGED <<writers, conn, delivered, transaction, analysis,
                   log_exists, state_text, unwritten,
          active_connections>>

\* classification results as the scoring helpers can receive them: any
\* score, up to three types, any summed severity; is_attack holds when a
\* type was classified (line 195 of attack_detection.py)
AnomalyScores == {0, 4, 5, 9, 10, 19, 20, 25, 26, 49, 50, 99, 100, 150}
TypeSets == SUBSET {<<"XSS">>, <<"SQLI">>, <<"LFI">>}
SeverityScores == {0, 2, 5, 20}
ParsedResults ==
    {r \in [status_code : {403}, attack_types : TypeSets, rule_ids : {<<>>},
            rule_files : {{}}, severity_score : SeverityScores,
            anomaly_score : AnomalyScores, is_attack : BOOLEAN,
            is_blocked : BOOLEAN, done : {TRUE}] :
        r.attack_types # {} => r.is_attack}

\* ------------------------------------------------------------ two writers
\* Two ingestion processes on the same log, state file and store: the
\* process a supervisor has restarted and the old one that still drains.
\* Each has its own offsets, batch and session; the batch loop is followed
\* row by row so that the flushes and commits of the two interleave.
WriterIds == {"old", "new"}
Other(w) == CHOOSE v \in WriterIds : v # w

WriterStopped ==
    [pc |-> "stopped", last_position |-> 0, new_position |-> 0,
     todo |-> <<>>, session |-> NewSession(EmptyTable, EmptyTable)]

\* the writer's session seen against the rows committed by now
SessionNow(w) ==
    [writers[w].session EXCEPT !.waf = waf_logs, !.sec = security_events]

\* variant: an insert does not wait for an uncommitted row with its key
KeyLockedNever(w, uid) == FALSE

\* unique=True on log_unique_id: the insert of a key another open
\* transaction has inserted and not yet committed waits for that
\* transaction to end
KeyLocked(w, uid) ==
    Occurrences(writers[Other(w)].session.pending_waf, uid) > 0

WriterUnchanged ==
    UNCHANGED <<pc, last_position, new_position, events_to_commit,
                events_created, new_events, replay, conn, delivered,
                transaction, analysis, event,
          log_exists, state_text, unwritten,
          active_connections>>

\* main: load the last position and enter the loop
WriterStart(w) ==
    /\ writers[w].pc = "stopped"
    /\ writers' = [writers EXCEPT ![w].pc = "poll",
                      ![w].last_position = LoadState(state_file)]
    /\ UNCHANGED <<log_file, state_file, waf_logs, security_events>>
    /\ WriterUnchanged

\* the process ends between two polls (the old one has drained)
WriterStop(w) ==
    /\ writers[w].pc = "poll"
    /\ writers' = [writers EXCEPT ![w] = WriterStopped]
    /\ UNCHANGED <<log_file, state_file, waf_logs, security_events>>
    /\ WriterUnchanged

\* process_new_logs up to the batch loop: read the unread suffix
WriterRead(w) ==
    /\ writers[w].pc = "poll"
    /\ FileSize(log_file) > writers[w].last_position
    /\ LET results == ReadLoop(log_file, 1, writers[w].last_position)
       IN  writers' = [writers EXCEPT
                          ![w].todo = results,
                          ![w].new_position = FileSize(log_file),
                          ![w].session = NewSession(waf_logs, security_events),
                          ![w].pc = IF results = <<>> THEN "save" ELSE "batch"]
    /\ UNCHANGED <<log_file, state_file, waf_logs, security_events>>
    /\ WriterUnchanged

\* one iteration of the batch loop: flush the pair of rows of the next
\* result, or roll the session back on IntegrityError
WriterFlush(w) ==
    /\ writers[w].pc = "batch"
    /\ writers[w].todo # <<>>
    /\ ~KeyLocked(w, Head(writers[w].todo).log_unique_id)
    /\ writers' = [writers EXCEPT
                      ![w].session = ProcessResult(SessionNow(w),
                                                   Head(writers[w].todo)),
                      ![w].todo = Tail(@)]
    /\ UNCHANGED <<log_file, state_file, waf_logs, security_events>>
    /\ WriterUnchanged

\* the wait for the other transaction's row runs into the lock wait
\* timeout: the error is no IntegrityError, it leaves process_new_logs,
\* main logs it and polls again from the same offset
WriterLockTimeout(w) ==
    /\ writers[w].pc = "batch"
    /\ writers[w].todo # <<>>
    /\ KeyLocked(w, Head(writers[w].todo).log_unique_id)
    /\ writers' = [writers EXCEPT
                      ![w].pc = "poll", ![w].todo = <<>>,
                      ![w].new_position = 0,
                      ![w].session = NewSession(EmptyTable, EmptyTable)]
    /\ UNCHANGED <<log_file, state_file, waf_logs, security_events>>
    /\ WriterUnchanged

\* db.commit() after the loop
WriterCommit(w) ==
    /\ writers[w].pc = "batch"
    /\ writers[w].todo = <<>>
    /\ LET s == Commit(SessionNow(w))
       IN  /\ waf_logs' = s.waf
           /\ security_events' = s.sec
           /\ writers' = [writers EXCEPT ![w].session = s, ![w].pc = "save"]
    /\ UNCHANGED <<log_file, state_file>>
    /\ WriterUnchanged

\* the checkpoint write and the return to main
WriterSave(w) ==
    /\ writers[w].pc = "save"
    /\ state_file' = <<writers[w].new_position>>
    /\ writers' = [writers EXCEPT
                      ![w].last_position = writers[w].new_position,
                      ![w].pc = "poll", ![w].new_position = 0,
                      ![w].session = NewSession(EmptyTable, EmptyTable)]
    /\ UNCHANGED <<log_file, waf_logs, security_events>>
    /\ WriterUnchanged

\* ------------------------------------------------------------ connection
\* seconds as sixteenths of a second: 5 * 1.5^k is a whole number of
\* sixteenths for every k the loop reaches below the 30 s cap
Sixteenths(seconds) == seconds * 16

\* the process at start: SessionLocal is None, main has not yet asked for
\* a session. "at" is the position in main / get_db_session, "db" the
\* store seen from the process: "unreachable" (never reachable since the
\* start), "up", or "lost" (unreachable after having been up); "attempts"
\* counts the connection attempts since the start (history).
ConnStart ==
    [at |-> "main", SessionLocal |-> FALSE, retry_count |-> 0,
     retry_delay |-> 0, attempts |-> 0, db |-> "unreachable"]

\* variant: the delay grows without the cap
NextDelayUncapped(retry_delay) == (retry_delay * 3) \div 2

\* retry_delay = min(retry_delay * 1.5, 30)
NextDelay(retry_delay) ==
    IF (retry_delay * 3) \div 2 < Sixteenths(30)
    THEN (retry_delay * 3) \div 2
    ELSE Sixteenths(30)

\* main: db = db_session_factory(); get_db_session sets its locals and
\* enters the retry loop only while SessionLocal is None
GetDbSession ==
    /\ conn.at = "main"
    /\ conn' = IF conn.SessionLocal
               THEN [conn EXCEPT !.at = "session"]
               ELSE [conn EXCEPT !.at = "attempt", !.retry_count = 0,
                                 !.retry_delay = Sixteenths(5)]
    /\ UNCHANGED <<log_file, state_file, waf_logs, security_events, pc,
                   last_position, new_position, events_to_commit,
                   events_created, new_events, replay>>
    /\ UNCHANGED <<writers, delivered, transaction, analysis, event,
          log_exists, state_text, unwritten,
          active_connections>>

\* create_all succeeds: SessionLocal is set and a session returned
ConnectSucceeds ==
    /\ conn.at = "attempt"
    /\ conn.db = "up"
    /\ conn.attempts < MaxAttempts
    /\ conn' = [conn EXCEPT !.at = "session", !.SessionLocal = TRUE,
                            !.attempts = @ + 1]
    /\ UNCHANGED <<log_file, state_file, waf_logs, security_events, pc,
                   last_position, new_position, events_to_commit,
                   events_created, new_events, replay>>
    /\ UNCHANGED <<writers, delivered, transaction, analysis, event,
          log_exists, state_text, unwritten,
          active_connections>>

\* create_all raises OperationalError: count it, raise on the last
\* attempt, else sleep retry_delay
ConnectFails ==
    /\ conn.at = "attempt"
    /\ conn.db # "up"
    /\ conn.attempts < MaxAttempts
    /\ conn' = [conn EXCEPT !.retry_count = @ + 1, !.attempts = @ + 1,
                            !.at = IF conn.retry_count + 1 >= max_retries
                                   THEN "raised" ELSE "sleep"]
    /\ UNCHANGED <<log_file, state_file, waf_logs, security_events, pc,
                   last_position, new_position, events_to_commit,
                   events_created, new_events, replay>>
    /\ UNCHANGED <<writers, delivered, transaction, analysis, event,
          log_exists, state_text, unwritten,
          active_connections>>

\* time.sleep(retry_delay) returns; the delay grows; back to the loop test
Backoff ==
    /\ conn.at = "sleep"
    /\ conn' = [conn EXCEPT !.retry_delay = NextDelay(@), !.at = "attempt"]
    /\ UNCHANGED <<log_file, state_file, waf_logs, security_events, pc,
                   last_position, new_position, events_to_commit,
                   events_created, new_events, replay>>
    /\ UNCHANGED <<writers, delivered, transaction, analysis, event,
          log_exists, state_text, unwritten,
          active_connections>>

\* main: "except Exception as e: logging.error(...)", time.sleep(0.5) and
\* the next iteration of "while True"
MainCatches ==
    /\ conn.at = "raised"
    /\ conn' = [conn EXCEPT !.at = "main"]
    /\ UNCHANGED <<log_file, state_file, waf_logs, security_events, pc,
                   last_position, new_position, events_to_commit,
                   events_created, new_events, replay>>
    /\ UNCHANGED <<writers, delivered, transaction, analysis, event,
          log_exists, state_text, unwritten,
          active_connections>>

\* main with a session: the iteration's work, db.close(), time.sleep(0.5)
SessionPoll ==
    /\ conn.at = "session"
    /\ conn' = [conn EXCEPT !.at = "main"]
    /\ UNCHANGED <<log_file, state_file, waf_logs, security_events, pc,
                   last_position, new_position, events_to_commit,
                   events_created, new_events, replay>>
    /\ UNCHANGED <<writers, delivered, transaction, analysis, event,
          log_exists, state_text, unwritten,
          active_connections>>

\* environment: the store becomes reachable / is lost
DbUp ==
    /\ conn.db # "up"
    /\ conn' = [conn EXCEPT !.db = "up"]
    /\ UNCHANGED <<log_file, state_file, waf_logs, security_events, pc,
                   last_position, new_position, events_to_commit,
                   events_created, new_events, replay>>
    /\ UNCHANGED <<writers, delivered, transaction, analysis, event,
          log_exists, state_text, unwritten,
          active_connections>>

DbDown ==
    /\ conn.db = "up"
    /\ conn' = [conn EXCEPT !.db = "lost"]
    /\ UNCHANGED <<log_file, state_file, waf_logs, security_events, pc,
                   last_position, new_position, events_to_commit,
                   events_created, new_events, replay>>
    /\ UNCHANGED <<writers, delivered, transaction, analysis, event,
          log_exists, state_text, unwritten,
          active_connections>>

\* ------------------------------------------------------------ Init
InitDetached ==
    /\ writers = [w \in WriterIds |-> WriterStopped]
    /\ conn = ConnStart
    /\ delivered = {}
    /\ transaction = NoTransaction
    /\ analysis = NoAnalysis
    /\ event = {}
    /\ log_exists = TRUE
    /\ state_text = [exists |-> FALSE, text |-> <<>>]
    /\ unwritten = 0
    /\ active_connections = <<>>

Init ==
    /\ log_file = <<>>
    /\ state_file = <<>>
    /\ waf_logs = EmptyTable
    /\ security_events = EmptyTable
    /\ pc = "stopped"
    /\ last_position = 0
    /\ new_position = 0
    /\ events_to_commit = <<>>
    /\ events_created = 0
    /\ new_events = <<>>
    /\ replay = NoReplay
    /\ InitDetached

\* in-memory locals of process_new_logs back to their entry values
ResetLocals ==
    /\ new_position' = 0
    /\ events_to_commit' = <<>>
    /\ events_created' = 0
    /\ new_events' = <<>>

\* ------------------------------------------------------------ process
\* main, lines 469-482: load the last position and enter the loop
MainStart ==
    /\ pc = "stopped"
    /\ pc' = "poll"
    /\ last_position' = LoadState(state_file)
    /\ ResetLocals
    /\ UNCHANGED detached
    /\ UNCHANGED <<log_file, state_file, waf_logs, security_events, replay>>

\* one iteration of the loop of main whose size test finds nothing new
PollIdle ==
    /\ pc = "poll"
    /\ log_exists
    /\ FileSize(Visible(log_file, unwritten)) = last_position
    /\ UNCHANGED detached
    /\ UNCHANGED <<log_file, state_file, waf_logs, security_events, pc,
                   last_position, new_position, events_to_commit,
                   events_created, new_events, replay>>

\* the size decreased: reset the in-memory position
PollTruncated ==
    /\ pc = "poll"
    /\ log_exists
    /\ FileSize(Visible(log_file, unwritten)) < last_position
    /\ last_position' = 0
    /\ UNCHANGED detached
    /\ UNCHANGED <<log_file, state_file, waf_logs, security_events, pc,
                   new_position, events_to_commit, events_created,
                   new_events, replay>>

\* new content: process_new_logs up to "new_position = f.tell()"
PollRead ==
    /\ pc = "poll"
    /\ log_exists
    /\ FileSize(Visible(log_file, unwritten)) > last_position
    /\ events_to_commit' =
          ReadLoop(Visible(log_file, unwritten), 1, last_position)
    /\ new_position' = FileSize(Visible(log_file, unwritten))
    /\ events_created' = 0
    /\ new_events' = <<>>
    /\ pc' = IF events_to_commit' = <<>> THEN "save" ELSE "persist"
    /\ replay' = IF Replaying THEN replay ELSE BatchMark
    /\ UNCHANGED detached
    /\ UNCHANGED <<log_file, state_file, waf_logs, security_events,
                   last_position>>

\* the batch loop followed by a successful db.commit()
PersistCommit ==
    /\ pc = "persist"
    /\ LET s == Commit(BatchLoop(NewSession(waf_logs, security_events),
                                 events_to_commit))
       IN  /\ waf_logs' = s.waf
           /\ security_events' = s.sec
           /\ events_created' = s.created
           /\ new_events' = s.collected
    /\ pc' = "committed"
    /\ UNCHANGED detached
    /\ UNCHANGED <<log_file, state_file, last_position, new_position,
                   events_to_commit, replay>>

\* the batch loop followed by a db.commit() that raises: rollback, go on
PersistCommitFails ==
    /\ pc = "persist"
    /\ LET s == Rollback(BatchLoop(NewSession(waf_logs, security_events),
                                   events_to_commit))
       IN  /\ waf_logs' = s.waf
           /\ security_events' = s.sec
           /\ events_created' = s.created
           /\ new_events' = s.collected
    /\ pc' = "rolledback"
    /\ UNCHANGED detached
    /\ UNCHANGED <<log_file, state_file, last_position, new_position,
                   events_to_commit, replay>>

\* a flush raises an error that is not IntegrityError: it leaves
\* process_new_logs and is logged by the except of main's loop
PersistFlushFails ==
    /\ pc = "persist"
    /\ pc' = "poll"
    /\ ResetLocals
    /\ replay' = IF Replaying THEN replay ELSE NoReplay
    /\ UNCHANGED detached
    /\ UNCHANGED <<log_file, state_file, waf_logs, security_events,
                   last_position>>

\* "if new_events: notify_backend_new_events(new_events)"
Notify ==
    /\ pc = "committed"
    /\ pc' = "notified"
    /\ UNCHANGED detached
    /\ UNCHANGED <<log_file, state_file, waf_logs, security_events,
                   last_position, new_position, events_to_commit,
                   events_created, new_events, replay>>

\* write the state file, return new_position to main
SavePosition ==
    /\ pc \in {"save", "notified", "rolledback"}
    /\ state_file' = <<new_position>>
    /\ last_position' = new_position
    /\ pc' = "poll"
    /\ ResetLocals
    /\ replay' = IF Replaying THEN <<[replay[1] EXCEPT !.done = TRUE]>>
                 ELSE NoReplay
    /\ UNCHANGED detached
    /\ UNCHANGED <<log_file, waf_logs, security_events>>

\* ------------------------------------------------------------ environment
\* the WAF appends one complete line
AppendLine(line) ==
    /\ log_exists
    /\ unwritten = 0
    /\ Len(log_file) < MaxLines
    /\ log_file' = Append(log_file, line)
    /\ replay' = NoReplay
    /\ UNCHANGED detached
    /\ UNCHANGED <<state_file, waf_logs, security_events, pc, last_position,
                   new_position, events_to_commit, events_created,
                   new_events>>

\* the log is rotated or truncated: an empty file takes its place
Truncate ==
    /\ log_file # <<>>
    /\ log_file' = <<>>
    /\ replay' = NoReplay
    /\ UNCHANGED detached
    /\ UNCHANGED <<state_file, waf_logs, security_events, pc, last_position,
                   new_position, events_to_commit, events_created,
                   new_events>>

\* the process dies; the session's uncommitted rows are gone with it
Crash ==
    /\ pc # "stopped"
    /\ pc' = "stopped"
    /\ last_position' = 0
    /\ ResetLocals
    /\ replay' = IF Replaying THEN replay
                 ELSE IF /\ replay = BatchMark
                         /\ pc \in {"committed", "notified"}
                         /\ last_position = LoadState(state_file)
                 THEN <<[kind |-> "crash", waf |-> waf_logs,
                         sec |-> security_events, upto |-> new_position,
                         done |-> FALSE]>>
                 ELSE NoReplay
    /\ UNCHANGED detached
    /\ UNCHANGED <<log_file, state_file, waf_logs, security_events>>

\* an operator resets the checkpoint of the stopped process
ResetCheckpoint ==
    /\ pc = "stopped"
    /\ state_file # <<>>
    /\ state_file' = <<>>
    /\ replay' = IF /\ log_file # <<>>
                    /\ LoadState(state_file) = FileSize(log_file)
                    /\ \A i \in 1..Len(log_file) :
                          WellFormed(log_file[i]) =>
                              /\ waf_logs[log_file[i].uid] > 0
                              /\ security_events[log_file[i].uid] > 0
                 THEN <<[kind |-> "reset", waf |-> waf_logs,
                         sec |-> security_events, upto |-> FileSize(log_file),
                         done |-> FALSE]>>
                 ELSE NoReplay
    /\ UNCHANGED detached
    /\ UNCHANGED <<log_file, waf_logs, security_events, pc, last_position,
                   new_position, events_to_commit, events_created,
                   new_events>>

Next ==
    \/ MainStart
    \/ PollIdle
    \/ PollTruncated
    \/ PollRead
    \/ PersistCommit
    \/ PersistCommitFails
    \/ PersistFlushFails
    \/ Notify
    \/ SavePosition
    \/ \E line \in GoodLines : AppendLine(line)
    \/ Truncate
    \/ Crash
    \/ ResetCheckpoint

Spec == Init /\ [][Next]_vars

\* the loop fed with well-formed, repairable and corrupt lines, the log
\* append-only and the process never killed
NextLines ==
    \/ MainStart
    \/ PollIdle
    \/ PollRead
    \/ PersistCommit
    \/ PersistCommitFails
    \/ PersistFlushFails
    \/ Notify
    \/ SavePosition
    \/ \E line \in LineInputs : AppendLine(line)

SpecLines == Init /\ [][NextLines]_vars

\* backlog load: a complete log of well-formed lines is already there, no
\* checkpoint, empty store; nothing is appended and the store is available
InitBacklog ==
    /\ log_file \in UNION {[1..n -> GoodLines] : n \in 0..MaxLines}
    /\ state_file = <<>>
    /\ waf_logs = EmptyTable
    /\ security_events = EmptyTable
    /\ pc = "stopped"
    /\ last_position = 0
    /\ new_position = 0
    /\ events_to_commit = <<>>
    /\ events_created = 0
    /\ new_events = <<>>
    /\ replay = NoReplay
    /\ InitDetached

NextBacklog ==
    \/ MainStart
    \/ PollIdle
    \/ PollRead
    \/ PersistCommit
    \/ Notify
    \/ SavePosition
    \/ Crash

SpecBacklog == InitBacklog /\ [][NextBacklog]_vars

\* the WAF appends the complete line of a new transaction: its unique_id
\* is not in the log, not in flight and not stored
AppendFresh(line) ==
    /\ \A i \in 1..Len(log_file) : log_file[i].uid # line.uid
    /\ \A i \in 1..Len(events_to_commit) :
          events_to_commit[i].log_unique_id # line.uid
    /\ waf_logs[line.uid] = 0
    /\ AppendLine(line)

\* rotation: the log is replaced and written again while the loop runs with
\* the store available; every transaction has its own unique_id
NextRotate ==
    \/ MainStart
    \/ PollIdle
    \/ PollTruncated
    \/ PollRead
    \/ PersistCommit
    \/ PersistFlushFails
    \/ Notify
    \/ SavePosition
    \/ \E line \in GoodLines : AppendFresh(line)
    \/ Truncate
    \/ Crash

SpecRotate == Init /\ [][NextRotate]_vars

\* the log also receives valid lines without method or uri
NextFields ==
    \/ MainStart
    \/ PollIdle
    \/ PollRead
    \/ PersistCommit
    \/ PersistCommitFails
    \/ PersistFlushFails
    \/ Notify
    \/ SavePosition
    \/ \E line \in FieldInputs : AppendLine(line)

SpecFields == Init /\ [][NextFields]_vars

\* one audit-log entry, drawn from the bounded set, is analysed
InitClassify ==
    /\ log_file = <<>>
    /\ state_file = <<>>
    /\ waf_logs = EmptyTable
    /\ security_events = EmptyTable
    /\ pc = "stopped"
    /\ last_position = 0
    /\ new_position = 0
    /\ events_to_commit = <<>>
    /\ events_created = 0
    /\ new_events = <<>>
    /\ replay = NoReplay
    /\ writers = [w \in WriterIds |-> WriterStopped]
    /\ conn = ConnStart
    /\ delivered = {}
    /\ transaction \in Transactions
    /\ analysis = NoAnalysis
    /\ event = {}
    /\ log_exists = TRUE
    /\ state_text = [exists |-> FALSE, text |-> <<>>]
    /\ unwritten = 0
    /\ active_connections = <<>>

NextClassify == Analyze

SpecClassify == InitClassify /\ [][NextClassify]_vars

\* ------------------------------------------------------------ state text
\* the state file as the text that main reads and process_new_logs writes
\* (main, lines 473-480; process_new_logs, lines 442-444)
MaxOffset == 105

Offsets == 0..MaxOffset

Digits == <<"0", "1", "2", "3", "4", "5", "6", "7", "8", "9">>

IsDigit(c) == \E i \in 1..10 : Digits[i] = c

DigitOf(c) == (CHOOSE i \in 1..10 : Digits[i] = c) - 1

Spaces == {" ", "\n"}

RECURSIVE LStrip(_)
LStrip(text) ==
    IF text # <<>> /\ Head(text) \in Spaces THEN LStrip(Tail(text)) ELSE text

RECURSIVE RStrip(_)
RStrip(text) ==
    IF text # <<>> /\ text[Len(text)] \in Spaces
    THEN RStrip(SubSeq(text, 1, Len(text) - 1))
    ELSE text

\* str.strip()
Strip(text) == RStrip(LStrip(text))

RECURSIVE DigitsValue(_)
DigitsValue(text) ==
    IF text = <<>> THEN 0
    ELSE 10 * DigitsValue(SubSeq(text, 1, Len(text) - 1))
         + DigitOf(text[Len(text)])

\* int(text): an optional sign and at least one digit, else ValueError
IntOf(text) ==
    LET t == Strip(text)
        signed == t # <<>> /\ t[1] \in {"+", "-"}
        body == IF signed THEN Tail(t) ELSE t
    IN  IF body # <<>> /\ \A i \in 1..Len(body) : IsDigit(body[i])
        THEN [ok |-> TRUE,
              val |-> IF signed /\ t[1] = "-" THEN 0 - DigitsValue(body)
                      ELSE DigitsValue(body)]
        ELSE [ok |-> FALSE, val |-> 0]

\* str(new_position)
RECURSIVE Str(_)
Str(n) ==
    IF n < 10 THEN <<Digits[n + 1]>>
    ELSE Str(n \div 10) \o <<Digits[(n % 10) + 1]>>

NoText == [exists |-> FALSE, text |-> <<>>]

\* texts that are not the output of str(): empty, blank, letters, a lone
\* sign, signed numbers, a number with blanks around or inside it
OtherTexts ==
    {<<>>, <<"\n">>, <<"x">>, <<"1", "x">>, <<"-">>, <<"-", "5">>,
     <<"+", "3">>, <<" ", "1", "2", "\n">>, <<"1", " ", "2">>}

\* main, lines 473-480: 0 without a file; int(f.read().strip()), and 0 when
\* that raises
LoadStateText(st) ==
    IF ~st.exists THEN 0
    ELSE IF IntOf(Strip(st.text)).ok THEN IntOf(Strip(st.text)).val
    ELSE 0

\* variant: the conversion is not guarded, a text that is no number ends
\* main
MainLoadUnguarded ==
    /\ pc = "stopped"
    /\ state_text.exists => IntOf(Strip(state_text.text)).ok
    /\ pc' = "poll"
    /\ last_position' = LoadStateText(state_text)
    /\ ResetLocals
    /\ UNCHANGED <<writers, conn, delivered, transaction, analysis, event,
                   log_exists, state_text, unwritten,
          active_connections>>
    /\ UNCHANGED <<log_file, state_file, waf_logs, security_events, replay>>

\* main, lines 469-482, on the text of the state file
MainLoad ==
    /\ pc = "stopped"
    /\ pc' = "poll"
    /\ last_position' = LoadStateText(state_text)
    /\ ResetLocals
    /\ UNCHANGED <<writers, conn, delivered, transaction, analysis, event,
                   log_exists, state_text, unwritten,
          active_connections>>
    /\ UNCHANGED <<log_file, state_file, waf_logs, security_events, replay>>

\* process_new_logs, lines 442-446: open(STATE_FILE_PATH, 'w'), write
\* str(new_position), close, return new_position
SaveText(n) ==
    /\ pc = "poll"
    /\ state_text' = [exists |-> TRUE, text |-> Str(n)]
    /\ last_position' = n
    /\ UNCHANGED <<writers, conn, delivered, transaction, analysis, event,
                   log_exists, unwritten,
          active_connections>>
    /\ UNCHANGED <<log_file, state_file, waf_logs, security_events, pc,
                   new_position, events_to_commit, events_created,
                   new_events, replay>>

\* the process dies inside the with block: open(..., 'w') has emptied the
\* file and the buffered text reaches it in one piece at close, or not at
\* all
CrashInSave(n) ==
    /\ pc = "poll"
    /\ pc' = "stopped"
    /\ \E text \in {<<>>, Str(n)} :
          state_text' = [exists |-> TRUE, text |-> text]
    /\ last_position' = 0
    /\ UNCHANGED <<writers, conn, delivered, transaction, analysis, event,
                   log_exists, unwritten,
          active_connections>>
    /\ UNCHANGED <<log_file, state_file, waf_logs, security_events,
                   new_position, events_to_commit, events_created,
                   new_events, replay>>

\* while the process is down the state file is damaged or removed
Damage ==
    /\ pc = "stopped"
    /\ \E st \in {NoText} \cup [exists : {TRUE}, text : OtherTexts] :
          state_text' = st
    /\ UNCHANGED <<writers, conn, delivered, transaction, analysis, event,
                   log_exists, unwritten,
          active_connections>>
    /\ UNCHANGED <<log_file, state_file, waf_logs, security_events, pc,
                   last_position, new_position, events_to_commit,
                   events_created, new_events, replay>>

\* starts of main on whatever state file the last run or a damage left
NextLoad ==
    \/ MainLoad
    \/ \E n \in Offsets : SaveText(n)
    \/ \E n \in Offsets : CrashInSave(n)
    \/ Damage

SpecLoad == Init /\ [][NextLoad]_vars

\* variant: an absent log is taken for a truncated one
PollAbsentResets ==
    /\ pc = "poll"
    /\ ~log_exists
    /\ last_position' = 0
    /\ UNCHANGED <<writers, conn, delivered, transaction, analysis, event,
                   log_exists, state_text, unwritten,
          active_connections>>
    /\ UNCHANGED <<log_file, state_file, waf_logs, security_events, pc,
                   new_position, events_to_commit, events_created,
                   new_events, replay>>

\* one iteration of the loop of main that finds no log file: the test
\* os.path.exists fails and the iteration ends
PollAbsent ==
    /\ pc = "poll"
    /\ ~log_exists
    /\ UNCHANGED detached
    /\ UNCHANGED <<log_file, state_file, waf_logs, security_events, pc,
                   last_position, new_position, events_to_commit,
                   events_created, new_events, replay>>

\* main saw new content, the file is removed before process_new_logs tests
\* os.path.exists: it returns last_position (lines 316-317)
PollVanished ==
    /\ pc = "poll"
    /\ log_exists
    /\ FileSize(Visible(log_file, unwritten)) > last_position
    /\ log_exists' = FALSE
    /\ log_file' = <<>>
    /\ replay' = NoReplay
    /\ UNCHANGED <<writers, conn, delivered, transaction, analysis, event,
                   state_text, unwritten,
          active_connections>>
    /\ UNCHANGED <<state_file, waf_logs, security_events, pc, last_position,
                   new_position, events_to_commit, events_created,
                   new_events>>

\* the log file is removed (rotation by rename)
Remove ==
    /\ log_exists
    /\ log_exists' = FALSE
    /\ log_file' = <<>>
    /\ replay' = NoReplay
    /\ UNCHANGED <<writers, conn, delivered, transaction, analysis, event,
                   state_text, unwritten,
          active_connections>>
    /\ UNCHANGED <<state_file, waf_logs, security_events, pc, last_position,
                   new_position, events_to_commit, events_created,
                   new_events>>

\* the WAF opens a new, empty log file
Create ==
    /\ ~log_exists
    /\ log_exists' = TRUE
    /\ UNCHANGED <<writers, conn, delivered, transaction, analysis, event,
                   state_text, unwritten,
          active_connections>>
    /\ UNCHANGED <<log_file, state_file, waf_logs, security_events, pc,
                   last_position, new_position, events_to_commit,
                   events_created, new_events, replay>>

\* the loop runs while the log file comes and goes
NextAbsent ==
    \/ MainStart
    \/ PollIdle
    \/ PollAbsent
    \/ PollVanished
    \/ PollTruncated
    \/ PollRead
    \/ PersistCommit
    \/ Notify
    \/ SavePosition
    \/ \E line \in GoodLines : AppendLine(line)
    \/ Remove
    \/ Create
    \/ Crash

SpecAbsent == Init /\ [][NextAbsent]_vars

\* the WAF writes the line of a new transaction in two writes: the first
\* puts all but the last n bytes into the file
AppendPartial(line, n) ==
    /\ log_exists
    /\ unwritten = 0
    /\ Len(log_file) < MaxLines
    /\ \A i \in 1..Len(log_file) : log_file[i].uid # line.uid
    /\ waf_logs[line.uid] = 0
    /\ log_file' = Append(log_file, line)
    /\ unwritten' = n
    /\ replay' = NoReplay
    /\ UNCHANGED <<writers, conn, delivered, transaction, analysis, event,
                   log_exists, state_text, active_connections>>
    /\ UNCHANGED <<state_file, waf_logs, security_events, pc, last_position,
                   new_position, events_to_commit, events_created,
                   new_events>>

\* the second write completes the line
AppendRest ==
    /\ unwritten > 0
    /\ unwritten' = 0
    /\ replay' = NoReplay
    /\ UNCHANGED <<writers, conn, delivered, transaction, analysis, event,
                   log_exists, state_text, active_connections>>
    /\ UNCHANGED <<log_file, state_file, waf_logs, security_events, pc,
                   last_position, new_position, events_to_commit,
                   events_created, new_events>>

\* the WAF appends the complete line of a new transaction, with or without
\* a usable time_stamp; every transaction has its own unique_id and the
\* store is available
NextStamps ==
    \/ MainStart
    \/ PollIdle
    \/ PollRead
    \/ PersistCommit
    \/ Notify
    \/ SavePosition
    \/ \E line \in StampInputs : AppendFresh(line)

SpecStamps == Init /\ [][NextStamps]_vars

\* the loop runs with the store available while the WAF writes new
\* transactions, some of them in two writes
NextPartial ==
    \/ MainStart
    \/ PollIdle
    \/ PollRead
    \/ PersistCommit
    \/ Notify
    \/ SavePosition
    \/ \E line \in GoodLines : AppendFresh(line)
    \/ \E line \in GoodLines : \E n \in 1..(LineLen - 1) :
          AppendPartial(line, n)
    \/ AppendRest

SpecPartial == Init /\ [][NextPartial]_vars

\* the steps of the process with the store reachable: "while True" with
\* time.sleep(0.5) between polls takes its next step as long as the process
\* lives
ProcessNext ==
    \/ MainStart
    \/ PollIdle
    \/ PollTruncated
    \/ PollRead
    \/ PersistCommit
    \/ Notify
    \/ SavePosition

\* the program with a loop that keeps running
SpecCatchUp == Init /\ [][Next]_vars /\ WF_vars(ProcessNext)

\* parse_log_entry runs on one entry, once or again, in any process; the
\* entry's matches are signature matches of rule 941100 in any rule file
\* and scoring messages of the blocking rule
InitEvent ==
    /\ InitClassify
    /\ \A i \in 1..Len(transaction.messages) :
          transaction.messages[i].ruleId \in {"941100", BLOCKING_RULE_ID}

NextEvent == ParseLogEntryRun

SpecEvent == InitEvent /\ [][NextEvent]_vars

\* the scoring helpers run on one classification result
InitScoring ==
    /\ log_file = <<>>
    /\ state_file = <<>>
    /\ waf_logs = EmptyTable
    /\ security_events = EmptyTable
    /\ pc = "stopped"
    /\ last_position = 0
    /\ new_position = 0
    /\ events_to_commit = <<>>
    /\ events_created = 0
    /\ new_events = <<>>
    /\ replay = NoReplay
    /\ writers = [w \in WriterIds |-> WriterStopped]
    /\ conn = ConnStart
    /\ delivered = {}
    /\ transaction = NoTransaction
    /\ analysis \in ParsedResults
    /\ event = {}
    /\ log_exists = TRUE
    /\ state_text = [exists |-> FALSE, text |-> <<>>]
    /\ unwritten = 0
    /\ active_connections = <<>>

NextScoring == BuildEventRun

SpecScoring == InitScoring /\ [][NextScoring]_vars

\* two processes ingest the log the WAF appends new transactions to
NextWriters ==
    \/ \E w \in WriterIds : WriterStart(w)
    \/ \E w \in WriterIds : WriterStop(w)
    \/ \E w \in WriterIds : WriterRead(w)
    \/ \E w \in WriterIds : WriterFlush(w)
    \/ \E w \in WriterIds : WriterLockTimeout(w)
    \/ \E w \in WriterIds : WriterCommit(w)
    \/ \E w \in WriterIds : WriterSave(w)
    \/ \E line \in GoodLines : AppendFresh(line)

SpecWriters == Init /\ [][NextWriters]_vars

\* the process and the store's reachability
NextConnect ==
    \/ GetDbSession
    \/ ConnectSucceeds
    \/ ConnectFails
    \/ Backoff
    \/ MainCatches
    \/ SessionPoll
    \/ DbUp
    \/ DbDown

SpecConnect == Init /\ [][NextConnect]_vars

\* ------------------------------------------------------------ notifier
\* what one requests.post(backend_url, json=event, timeout=0.5) can do:
\* return a response, raise (connection refused, ...) or time out
PostOutcomes == {"ok", "error", "timeout"}

\* variant: the exception of a failed post leaves process_new_logs, so the
\* poll ends in main's handler without the checkpoint write
NotifyReturnRaises(outcomes) ==
    IF \E i \in DOMAIN outcomes : outcomes[i] # "ok" THEN "poll"
    ELSE "notified"

\* where process_new_logs continues after notify_backend_new_events: each
\* post sits in "try: ... except: pass", so always behind the call
NotifyReturn(outcomes) == "notified"

\* notify_backend_new_events(new_events), one post per event in order
NotifyCalls ==
    /\ pc = "committed"
    /\ \E outcomes \in [1..Len(new_events) -> PostOutcomes] :
          /\ delivered' = delivered \cup
                {new_events[i] : i \in {j \in 1..Len(new_events) :
                                           outcomes[j] = "ok"}}
          /\ pc' = NotifyReturn(outcomes)
    /\ UNCHANGED <<log_file, state_file, waf_logs, security_events,
                   last_position, new_position, events_to_commit,
                   events_created, new_events, replay>>
    /\ UNCHANGED <<writers, conn, transaction, analysis, event,
          log_exists, state_text, unwritten,
          active_connections>>

NextNotify ==
    \/ MainStart
    \/ PollIdle
    \/ PollRead
    \/ PersistCommit
    \/ PersistCommitFails
    \/ PersistFlushFails
    \/ NotifyCalls
    \/ SavePosition
    \/ \E line \in GoodLines : AppendLine(line)

SpecNotify == Init /\ [][NextNotify]_vars

\* ------------------------------------------------------------ live channel
\* (src/backend/app/presentation/routers/monitoring.py, broadcast_event;
\* src/log_processor/log_processor.py, notify_backend_new_events)
\* a websocket of active_connections: whether send_json succeeds on it,
\* and the messages it was sent
Connection(alive) == [alive |-> alive, received |-> {}]

ConnectionLists ==
    {<<>>, <<Connection(TRUE)>>, <<Connection(FALSE)>>,
     <<Connection(FALSE), Connection(TRUE)>>}

\* the dict appended to new_events for a flushed event (id, timestamp and
\* source_ip play no part in the filter)
EventPayload(e) ==
    [attack_type |-> e.attack_type,
     severity |-> e.severity,
     is_blocked |-> e.is_blocked]

\* e.get("severity") == "HIGH" or e.get("is_blocked"): the test of the
\* notifier's critical_count and of the endpoint's filter
IsCritical(e) == e.severity = "HIGH" \/ e.is_blocked

\* critical_count of notify_backend_new_events
CriticalCount(events_data) ==
    Cardinality({i \in 1..Len(events_data) : IsCritical(events_data[i])})

\* broadcast_event: a critical event is sent to every connection, and the
\* connections whose send raised are removed
BroadcastEvent(e, connections) ==
    IF IsCritical(e)
    THEN LET sent == [i \in 1..Len(connections) |->
                         IF connections[i].alive
                         THEN [connections[i] EXCEPT !.received =
                                  @ \cup {[type |-> "critical_event",
                                           data |-> e]}]
                         ELSE connections[i]]
             open(c) == c.alive
         IN  SelectSeq(sent, open)
    ELSE connections

\* the batch loop's flush of one built event and the commit: the event's
\* payload is collected for the notification
CollectEvent ==
    /\ pc = "stopped"
    /\ new_events = <<>>
    /\ \E e \in event : new_events' = <<EventPayload(e)>>
    /\ events_created' = 1
    /\ pc' = "committed"
    /\ UNCHANGED <<log_file, state_file, waf_logs, security_events,
                   last_position, new_position, events_to_commit, replay>>
    /\ UNCHANGED detached

\* notify_backend_new_events: one post per event; a post that arrives runs
\* broadcast_event in the backend
NotifyBackend ==
    /\ pc = "committed"
    /\ new_events # <<>>
    /\ \E outcome \in PostOutcomes :
          IF outcome = "ok"
          THEN /\ delivered' = delivered \cup {new_events[1]}
               /\ active_connections' =
                     BroadcastEvent(new_events[1], active_connections)
          ELSE UNCHANGED <<delivered, active_connections>>
    /\ pc' = "notified"
    /\ UNCHANGED <<log_file, state_file, waf_logs, security_events,
                   last_position, new_position, events_to_commit,
                   events_created, new_events, replay>>
    /\ UNCHANGED <<writers, conn, transaction, analysis, event, log_exists,
                   state_text, unwritten>>

InitBroadcast ==
    /\ log_file = <<>>
    /\ state_file = <<>>
    /\ waf_logs = EmptyTable
    /\ security_events = EmptyTable
    /\ pc = "stopped"
    /\ last_position = 0
    /\ new_position = 0
    /\ events_to_commit = <<>>
    /\ events_created = 0
    /\ new_events = <<>>
    /\ replay = NoReplay
    /\ writers = [w \in WriterIds |-> WriterStopped]
    /\ conn = ConnStart
    /\ delivered = {}
    /\ transaction = NoTransaction
    /\ analysis \in ParsedResults
    /\ event = {}
    /\ log_exists = TRUE
    /\ state_text = [exists |-> FALSE, text |-> <<>>]
    /\ unwritten = 0
    /\ active_connections \in ConnectionLists

BuildOnce == event = {} /\ BuildEventRun

NextBroadcast ==
    \/ BuildOnce
    \/ CollectEvent
    \/ NotifyBackend

SpecBroadcast == InitBroadcast /\ [][NextBroadcast]_vars

\* ------------------------------------------------------------ properties
\* the persisted checkpoint
Checkpoint == LoadState(state_file)

Stored(u) == waf_logs[u] > 0 /\ security_events[u] > 0

\* between PollRead and SavePosition
InBatch == pc \in {"persist", "committed", "rolledback", "notified", "save"}

\* indices of the lines the current poll has read (append-only log)
LinesRead ==
    {i \in 1..Len(log_file) :
        /\ LineEnd(log_file, i) > last_position
        /\ LineEnd(log_file, i) <= new_position}

\* C1: without truncation, every well-formed transaction whose line lies
\* entirely before the persisted checkpoint has its rows committed.
C1_NoLossBehindCheckpoint ==
    \A i \in 1..Len(log_file) :
        (WellFormed(log_file[i]) /\ LineEnd(log_file, i) <= Checkpoint)
            => Stored(log_file[i].uid)

\* C2: the store never holds more than one waf_logs row per unique id nor
\* more than one security event per transaction.
C2_NoDuplicateRows ==
    \A u \in Uids : waf_logs[u] <= 1 /\ security_events[u] <= 1

\* a batch with an absorbed natural-key conflict has been committed on top
\* of stored rows
C2_Witness ==
    /\ pc = "committed"
    /\ events_created < Len(events_to_commit)
    /\ \E u \in Uids : waf_logs[u] = 1

\* C3: in every committed store state a transaction has a security event
\* iff it has a waf_logs row.
C3_PairAtomicity ==
    \A u \in Uids : (security_events[u] > 0) <=> (waf_logs[u] > 0)

\* a commit failed after rows of the batch had been flushed, while an
\* earlier batch is stored
C3_Witness ==
    /\ pc = "rolledback"
    /\ events_created > 0
    /\ \E u \in Uids : waf_logs[u] = 0 /\ security_events[u] = 0
    /\ \E u \in Uids : Stored(u)

\* C4: once the commit of a batch succeeds every transaction of the batch
\* is in the store: the duplicates were there, the others were inserted.
C4_DuplicateDoesNotAbortBatch ==
    pc = "committed" =>
        \A i \in 1..Len(events_to_commit) :
            Stored(events_to_commit[i].log_unique_id)

\* C5: a poll whose commit failed leaves the persisted checkpoint and the
\* in-memory offset at their values from before the batch.
C5_FailedCommitKeepsOffset ==
    [][(pc = "rolledback" /\ pc' = "poll") =>
          (state_file' = state_file /\ last_position' = last_position)]_vars

\* C6: after a crash between commit and checkpoint write, the replay of that
\* batch leaves the store exactly as it was and moves the checkpoint past
\* the batch.
C6_CrashReplay ==
    (replay # NoReplay /\ replay[1].kind = "crash" /\ replay[1].done) =>
        /\ waf_logs = replay[1].waf
        /\ security_events = replay[1].sec
        /\ \A u \in Uids : waf_logs[u] <= 1 /\ security_events[u] <= 1
        /\ Checkpoint >= replay[1].upto

\* the replay after such a crash is over and rows of the batch are stored
C6_Witness ==
    /\ replay # NoReplay
    /\ replay[1].kind = "crash"
    /\ replay[1].done
    /\ \E u \in Uids : Stored(u)
    /\ pc = "poll"

\* C7: re-ingesting a fully ingested file after a checkpoint reset leaves
\* the stored rows unchanged.
C7_ReingestIdempotent ==
    (replay # NoReplay /\ replay[1].kind = "reset" /\ replay[1].done) =>
        /\ waf_logs = replay[1].waf
        /\ security_events = replay[1].sec

\* the re-ingestion of a fully ingested, stored log is over
C7_Witness ==
    /\ replay # NoReplay
    /\ replay[1].kind = "reset"
    /\ replay[1].done
    /\ Checkpoint = FileSize(log_file)
    /\ \E u \in Uids : Stored(u)

\* lines of the current poll that are undecodable after both repair passes /
\* that decode
CorruptRead ==
    {i \in LinesRead : ~LineParses(LineAsRead(log_file, i, last_position))}
WellFormedRead == LinesRead \ CorruptRead

\* C8: a poll that reads an unrepairable line still builds every well-formed
\* line it read, before and after it; they are stored when the commit
\* succeeds without a key conflict; the checkpoint written at the end of
\* the poll is past the corrupt line.
C8_CorruptLineContained ==
    /\ []((InBatch /\ CorruptRead # {}) =>
            /\ Len(events_to_commit) = Cardinality(WellFormedRead)
            /\ \A i \in WellFormedRead :
                  \E k \in 1..Len(events_to_commit) :
                      events_to_commit[k].log_unique_id = log_file[i].uid
            /\ (pc = "committed" /\ events_created = Len(events_to_commit)) =>
                  \A i \in WellFormedRead : Stored(log_file[i].uid))
    /\ [][(pc \in {"save", "notified", "rolledback"} /\ pc' = "poll") =>
              \A i \in CorruptRead :
                  /\ LoadState(state_file') >= LineEnd(log_file, i)
                  /\ last_position' >= LineEnd(log_file, i)]_vars

\* a committed poll read a well-formed line, a corrupt one and another
\* well-formed one, and both transactions are stored
C8_Witness ==
    /\ pc = "committed"
    /\ \E i, j, k \in LinesRead :
          /\ i < j /\ j < k
          /\ i \in WellFormedRead /\ j \in CorruptRead /\ k \in WellFormedRead
          /\ log_file[i].uid # log_file[k].uid
          /\ Stored(log_file[i].uid) /\ Stored(log_file[k].uid)

\* C9: the backlog load ends with one stored event per distinct unique id
\* of the file and the checkpoint at the file's length.
C9_BacklogLoad ==
    (pc = "poll" /\ last_position = FileSize(log_file)) =>
        /\ Checkpoint = FileSize(log_file)
        /\ \A u \in Uids :
              IF \E i \in 1..Len(log_file) : log_file[i].uid = u
              THEN waf_logs[u] = 1 /\ security_events[u] = 1
              ELSE waf_logs[u] = 0 /\ security_events[u] = 0

\* C10: while the loop runs neither the in-memory offset nor the persisted
\* one decreases, except to 0 in the step that detects a truncation.
TruncationDetected == pc = "poll" /\ FileSize(log_file) < last_position

C10_OffsetMonotonic ==
    [][(pc # "stopped" /\ pc' # "stopped") =>
          /\ \/ last_position' >= last_position
             \/ TruncationDetected /\ last_position' = 0
          /\ \/ LoadState(state_file') >= LoadState(state_file)
             \/ TruncationDetected /\ LoadState(state_file') = 0]_vars

\* the loop has nothing left to read: the size test of main finds no new
\* content
CaughtUp == pc = "poll" /\ FileSize(log_file) = last_position

\* C11: after a rotation, once the loop has caught up with the new file,
\* every well-formed transaction written to it is stored, whatever size the
\* new file had reached at the poll.
C11_NoLossAcrossRotation ==
    CaughtUp =>
        \A i \in 1..Len(log_file) :
            WellFormed(log_file[i]) => Stored(log_file[i].uid)

\* C14: when the notifier is called, every event handed to it is a row the
\* store has committed: no notification for an event of a transaction that
\* was rolled back or skipped.
C14_NotifiedEventsCommitted ==
    pc = "committed" =>
        \A u \in Uids : Occurrences(new_events, u) <= security_events[u]

\* C15: whatever each post does (response, error, timeout), the poll goes
\* on behind the notifier with the store, the offsets and the state file as
\* the commit left them, and then writes the checkpoint of the bytes it
\* read: store and checkpoint at the end of the poll do not depend on the
\* notification outcome.
C15_NotifierFailureIsolated ==
    /\ [][pc = "committed" /\ pc' # "committed" =>
            /\ pc' = "notified"
            /\ waf_logs' = waf_logs /\ security_events' = security_events
            /\ state_file' = state_file /\ last_position' = last_position
            /\ new_position' = new_position]_vars
    /\ [][pc = "notified" /\ pc' # "notified" =>
            /\ pc' = "poll"
            /\ waf_logs' = waf_logs /\ security_events' = security_events
            /\ state_file' = <<new_position>>
            /\ last_position' = new_position]_vars

\* a poll whose commit succeeded is behind the notifier and a post failed:
\* an event of the batch has not reached the backend
C15_Witness ==
    /\ pc = "notified"
    /\ \E i \in 1..Len(new_events) :
          new_events[i] \notin delivered /\ Stored(new_events[i])

\* lines of the current poll that decode but lack method or uri, and the
\* lines of the poll that give a result
FieldlessRead ==
    {i \in LinesRead :
        LET line == LineAsRead(log_file, i, last_position)
        IN  LineParses(line) /\ ~RequiredFields(line)}
ResultRead ==
    {i \in LinesRead : WellFormed(LineAsRead(log_file, i, last_position))}

\* C16: a poll that reads a valid line without method or uri builds no
\* result for it and one for every other well-formed line it read; the
\* commit adds no row beyond those of the other lines, they are stored
\* when the commit succeeds without a key conflict, and the checkpoint
\* written at the end of the poll is past the skipped line.
C16_MissingFieldsSkipped ==
    /\ []((InBatch /\ FieldlessRead # {}) =>
            /\ Len(events_to_commit) = Cardinality(ResultRead)
            /\ \A i \in ResultRead :
                  \E k \in 1..Len(events_to_commit) :
                      events_to_commit[k].log_unique_id = log_file[i].uid
            /\ (pc = "committed" /\ events_created = Len(events_to_commit)) =>
                  \A i \in ResultRead : Stored(log_file[i].uid))
    /\ [][(pc = "persist" /\ FieldlessRead # {}) =>
              \A u \in Uids :
                  /\ waf_logs'[u] - waf_logs[u] <=
                        Cardinality({i \in ResultRead : log_file[i].uid = u})
                  /\ security_events'[u] - security_events[u] <=
                        Cardinality({i \in ResultRead : log_file[i].uid = u})]_vars
    /\ [][(pc \in {"save", "notified", "rolledback"} /\ pc' = "poll") =>
              \A i \in FieldlessRead :
                  /\ LoadState(state_file') >= LineEnd(log_file, i)
                  /\ last_position' >= LineEnd(log_file, i)]_vars

\* a committed poll read a well-formed line, a line without the required
\* fields and another well-formed line that carries the same unique_id as
\* the skipped one: both well-formed transactions are stored, with a single
\* row for the shared id
C16_Witness ==
    /\ pc = "committed"
    /\ \E i, j, k \in LinesRead :
          /\ i < j /\ j < k
          /\ i \in ResultRead /\ j \in FieldlessRead /\ k \in ResultRead
          /\ log_file[i].uid # log_file[k].uid
          /\ log_file[j].uid = log_file[k].uid
          /\ Stored(log_file[i].uid) /\ Stored(log_file[k].uid)
          /\ waf_logs[log_file[k].uid] = 1
          /\ security_events[log_file[k].uid] = 1

\* C13: while the store has never been reachable since the start, the
\* process makes at most max_retries connection attempts (and then ends).
C13_FatalAfterBoundedRetries ==
    conn.db = "unreachable" => conn.attempts <= max_retries

\* both writers are between polls or stopped, and one that runs has read
\* the whole log
WritersDone ==
    /\ \A w \in WriterIds :
          \/ writers[w].pc = "stopped"
          \/ /\ writers[w].pc = "poll"
             /\ writers[w].last_position = FileSize(log_file)
    /\ \E w \in WriterIds : writers[w].pc = "poll"

\* C12: with two processes ingesting overlapping ranges of one log, no
\* interleaving of their flushes and commits stores a transaction twice,
\* and when they are done every transaction of the log has exactly one
\* pair of rows.
C12_OverlappingWritersSafe ==
    /\ \A u \in Uids : waf_logs[u] <= 1 /\ security_events[u] <= 1
    /\ WritersDone =>
          \A i \in 1..Len(log_file) :
              waf_logs[log_file[i].uid] = 1
              /\ security_events[log_file[i].uid] = 1

\* both writers are inside their batch loops over overlapping ranges: one
\* holds the uncommitted row of the transaction that is next in the
\* other's batch, after the other has flushed a row of its own
C12_Witness ==
    \E w \in WriterIds :
        /\ writers[w].pc = "batch" /\ writers[Other(w)].pc = "batch"
        /\ writers[w].todo # <<>>
        /\ KeyLocked(w, Head(writers[w].todo).log_unique_id)

\* a match of a rule whose id is outside the evaluation set
NonEvaluationMatch(msg) ==
    msg.ruleId # "" /\ msg.ruleId \notin EVALUATION_RULES

\* C17 as stated: is_attack is true exactly when an attack type was
\* classified or some matched rule has an id outside the evaluation set.
C17_IsAttackAnyNonEvaluationMatch ==
    analysis.done =>
        (analysis.is_attack <=>
            \/ analysis.attack_types # {}
            \/ \E i \in 1..Len(transaction.messages) :
                  NonEvaluationMatch(transaction.messages[i]))

\* C17 (amended): is_attack is true exactly when an attack type was
\* classified or a matched rule with an id outside the evaluation set comes
\* from a rule file whose path names ATTACK, SCANNER or PROTOCOL (in any
\* case); such a match flags the transaction even with anomaly score 0 and
\* no identified type.
C17_IsAttackRule ==
    analysis.done =>
        (analysis.is_attack <=>
            \/ analysis.attack_types # {}
            \/ \E i \in 1..Len(transaction.messages) :
                  LET msg == transaction.messages[i]
                  IN  /\ NonEvaluationMatch(msg)
                      /\ \E k \in 1..Len(msg.file) :
                            Upper(msg.file[k]) \in
                                {"ATTACK", "SCANNER", "PROTOCOL"})

\* an entry flagged as attack with anomaly score 0 and no identified type
C17_Witness ==
    /\ analysis.done
    /\ analysis.is_attack
    /\ analysis.attack_types = {}
    /\ analysis.anomaly_score = 0

\* C18: is_blocked is true exactly when rule 949110 is among the matches
\* and the reported anomaly_score is at least 5, or a non-evaluation
\* violation (the condition that feeds is_attack) occurred and the status
\* is 403.
C18_IsBlockedRule ==
    analysis.done =>
        (analysis.is_blocked <=>
            \/ /\ \E i \in 1..Len(transaction.messages) :
                      transaction.messages[i].ruleId = "949110"
               /\ analysis.anomaly_score >= 5
            \/ /\ \E i \in 1..Len(transaction.messages) :
                      ActualViolation(transaction.messages[i])
               /\ transaction.http_code = 403)

\* the entry has a signature match on the XSS rule file and one on the
\* SQLI rule file, any further match comes from the blocking evaluation
\* file, and the response status is 403
XssSqliForbidden ==
    /\ transaction.http_code = 403
    /\ \E i \in 1..Len(transaction.messages) :
          /\ transaction.messages[i].file = XssFile
          /\ NonEvaluationMatch(transaction.messages[i])
    /\ \E i \in 1..Len(transaction.messages) :
          /\ transaction.messages[i].file = SqliFile
          /\ NonEvaluationMatch(transaction.messages[i])
    /\ \A i \in 1..Len(transaction.messages) :
          transaction.messages[i].file \in {XssFile, SqliFile, BlockingFile}

\* C19: matches on the XSS and the SQLI rule file with status 403 give
\* is_attack, the attack types XSS and SQLI, and is_blocked.
C19_XssSqliBlocked ==
    (analysis.done /\ XssSqliForbidden) =>
        /\ analysis.is_attack
        /\ analysis.attack_types = {<<"XSS">>, <<"SQLI">>}
        /\ analysis.is_blocked

C19_Witness ==
    /\ analysis.done
    /\ XssSqliForbidden
    /\ analysis.is_blocked
    /\ analysis.attack_types = {<<"XSS">>, <<"SQLI">>}

\* the only match is rule 949110, a scoring message whose match text
\* carries the value 10
OnlyBlockingRuleScoreTen ==
    /\ Len(transaction.messages) = 1
    /\ transaction.messages[1].ruleId = "949110"
    /\ transaction.messages[1].message = "score"
    /\ transaction.messages[1].match = <<Number(10)>>

\* C20: an entry whose only match is rule 949110 with the embedded score
\* 10 is blocked and reports anomaly_score 10, whatever its status.
C20_BlockingRuleAlone ==
    (analysis.done /\ OnlyBlockingRuleScoreTen) =>
        analysis.is_blocked /\ analysis.anomaly_score = 10

\* such an entry is blocked without being an attack
C20_Witness ==
    /\ analysis.done
    /\ OnlyBlockingRuleScoreTen
    /\ analysis.is_blocked
    /\ ~analysis.is_attack
    /\ transaction.http_code # 403

\* the events built from the entry under analysis
EventsBuilt == event # {}

\* C21: a transaction with zero rule matches, whatever its response status,
\* yields an event with is_attack false, is_blocked false, no attack_type
\* and risk_score 0.
C21_NoMatchesNoAttack ==
    transaction.messages = <<>> =>
        \A e \in event :
            /\ ~e.is_attack
            /\ ~e.is_blocked
            /\ e.attack_type = NoType
            /\ e.risk_score = 0

\* an entry without matches that was answered 403 has been built
C21_Witness ==
    /\ EventsBuilt
    /\ transaction.messages = <<>>
    /\ transaction.http_code = 403

\* C22: two runs of analyze_log_entry and parse_log_entry on the identical
\* transaction produce identical output (same types in the same order,
\* same primary attack_type, same ids, files, scores, flags, bucket and
\* risk score): all events built from one entry are equal.
C22_ClassificationDeterministic ==
    \A e1 \in event : \A e2 \in event : e1 = e2

\* the risk of a classification result before the clamp, in tenths:
\* min(2 * anomaly_score, 50) + 15 per distinct type + 5 * severity_score,
\* times 0.7 when blocked
RiskBeforeClamp(parsed_data) ==
    LET base == IF 2 * parsed_data.anomaly_score < 50
                THEN 2 * parsed_data.anomaly_score ELSE 50
        sum == base + 15 * Cardinality(parsed_data.attack_types)
                    + 5 * parsed_data.severity_score
    IN  IF parsed_data.is_blocked THEN 7 * sum ELSE 10 * sum

\* C23: for every classification result calculate_risk_score returns
\* min(2 * anomaly_score, 50) + 15 * (number of distinct types)
\* + 5 * severity_score, multiplied by 0.7 when blocked, then clamped; the
\* result lies in [0, 100] (risk_score is in tenths).
C23_RiskScoreFormula ==
    \A e \in event :
        /\ e.risk_score = Max(0, Min(1000, RiskBeforeClamp(analysis)))
        /\ e.risk_score >= 0
        /\ e.risk_score <= 1000

\* a blocked result whose reduced sum is above 100 was scored
C23_Witness ==
    /\ EventsBuilt
    /\ analysis.is_blocked
    /\ RiskBeforeClamp(analysis) > 1000
    /\ \E e \in event : e.risk_score = 1000

\* the bucket the thresholds give for a score, a blocked flag and a number
\* of distinct types
SeverityBucket(anomaly_score, is_blocked, types) ==
    CASE anomaly_score >= 100 \/ (is_blocked /\ types > 2) -> "critical"
      [] anomaly_score < 100 /\ ~(is_blocked /\ types > 2)
         /\ (anomaly_score >= 50 \/ (is_blocked /\ types >= 1)) -> "high"
      [] anomaly_score < 50 /\ ~(is_blocked /\ types >= 1)
         /\ (anomaly_score >= 20 \/ types >= 1) -> "medium"
      [] anomaly_score < 20 /\ types = 0 -> "low"

\* C24: determine_severity returns critical if anomaly_score >= 100 or
\* (blocked and more than 2 distinct types); otherwise high if
\* anomaly_score >= 50 or (blocked and at least one type); otherwise medium
\* if anomaly_score >= 20 or at least one type; otherwise low.
C24_SeverityBucket ==
    \A e \in event :
        e.severity = SeverityBucket(analysis.anomaly_score,
                                    analysis.is_blocked,
                                    Cardinality(analysis.attack_types))

\* a blocked result with three types and a score below 100 is critical,
\* by the type count alone
C24_Witness ==
    /\ analysis.is_blocked
    /\ Cardinality(analysis.attack_types) = 3
    /\ analysis.anomaly_score < 20
    /\ \E e \in event : e.severity = "critical"

\* C25: the event's attack_type is the first element of the classified
\* types when there is one; otherwise, when is_attack holds, it is HIGH_RISK
\* for a score of 10 or more, SUSPICIOUS for 5 to 9 and ANOMALY below 5; it
\* is a member of the classified set whenever that set is non-empty.
C25_PrimaryAttackType ==
    \A e \in event :
        /\ analysis.attack_types # {} =>
              /\ e.attack_type = e.attack_types[1]
              /\ e.attack_type \in analysis.attack_types
        /\ (analysis.attack_types = {} /\ analysis.is_attack) =>
              /\ analysis.anomaly_score >= 10 =>
                    e.attack_type = <<"HIGH", "RISK">>
              /\ (analysis.anomaly_score >= 5 /\ analysis.anomaly_score < 10)
                    => e.attack_type = <<"SUSPICIOUS">>
              /\ analysis.anomaly_score < 5 => e.attack_type = <<"ANOMALY">>

\* an attack without a type and with score 10 got the label HIGH_RISK
C25_Witness ==
    /\ analysis.attack_types = {}
    /\ analysis.is_attack
    /\ analysis.anomaly_score = 10
    /\ \E e \in event : e.attack_type = <<"HIGH", "RISK">>

\* the in-memory offset was reset by a detected truncation and no read has
\* completed since: main starts with the checkpoint as offset and every
\* completed read saves a checkpoint equal to the offset
OffsetReset == pc # "stopped" /\ last_position = 0 /\ Checkpoint # 0

\* the poll that detects the truncation sets the offset to 0, processes no
\* line and writes no checkpoint
TruncatedPollResetsOnly ==
    (TruncationDetected /\ pc' = "poll" /\ last_position' # last_position) =>
        /\ last_position' = 0
        /\ pc' = "poll"
        /\ events_to_commit' = <<>>
        /\ UNCHANGED <<state_file, waf_logs, security_events>>

\* the read that follows starts at byte 0 and takes every line of the file
FollowingPollReadsAll ==
    (OffsetReset /\ pc = "poll" /\ pc' \notin {"poll", "stopped"}) =>
        /\ new_position' = FileSize(log_file)
        /\ LinesRead' = 1..Len(log_file)
        /\ Len(events_to_commit') =
              Cardinality({i \in 1..Len(log_file) : WellFormed(log_file[i])})

\* when that read has been saved, every transaction it took (the content of
\* the truncated file) is stored
FollowingPollStoresAll ==
    (OffsetReset /\ InBatch /\ pc' = "poll" /\ state_file' # state_file) =>
        \A i \in 1..Len(events_to_commit) :
            /\ waf_logs'[events_to_commit[i].log_unique_id] > 0
            /\ security_events'[events_to_commit[i].log_unique_id] > 0

\* C26: a poll that finds the file shorter than the offset sets the
\* in-memory offset to 0, processes no line and writes no checkpoint; the
\* following poll reads the file from byte 0 and the content of the
\* truncated file is ingested in full.
C26_TruncationHandling ==
    [][/\ TruncatedPollResetsOnly
       /\ FollowingPollReadsAll
       /\ FollowingPollStoresAll]_vars

\* the step in which the notifier is called with the events of the batch
NotificationSent ==
    pc = "committed" /\ pc' = "notified" /\ new_events # <<>>

\* the step in which the checkpoint of the batch is written
CheckpointWritten == InBatch /\ state_file' # state_file

\* C27: within one poll cycle the commit happens before the checkpoint
\* write, and the checkpoint write happens before any notification for the
\* batch's events is sent: the checkpoint is written only after the commit
\* was attempted, and when the notifier is called the checkpoint already
\* stands at the end of the batch.
C27_PersistCheckpointNotify ==
    [][/\ CheckpointWritten => pc \notin {"persist"}
       /\ NotificationSent => Checkpoint = new_position]_vars

\* from some point on the log file does not change, the store is reachable
\* and the process is not stopped
Quiet == <>[][ProcessNext]_vars

\* C28: if the store stays reachable and the log file stops growing, the
\* loop eventually reaches a state where the persisted checkpoint equals the
\* file length, and from then on polls change neither the store nor the
\* checkpoint.
C28_CatchUp ==
    Quiet =>
        /\ <>[](Checkpoint = FileSize(log_file))
        /\ <>[][UNCHANGED <<state_file, waf_logs, security_events>>]_vars

\* a poll in which the log file does not exist (at the test of main or at
\* the test of process_new_logs) or has the size of the offset
IdleOrAbsentPoll ==
    /\ pc = "poll"
    /\ pc' # "stopped"
    /\ \/ ~log_exists
       \/ ~log_exists'
       \/ FileSize(log_file) = last_position

\* C29: a poll cycle in which the log file does not exist, or in which its
\* size equals the last offset, leaves the in-memory offset, the persisted
\* checkpoint and the store unchanged and sends no notification; the loop
\* goes on with the next poll.
C29_IdleAndAbsentPolls ==
    [][IdleOrAbsentPoll =>
          /\ UNCHANGED <<last_position, state_file, waf_logs, security_events,
                         new_events, delivered>>
          /\ pc' = "poll"]_vars

\* the loop polls with an offset behind stored transactions and no log file
C29_Witness ==
    /\ pc = "poll"
    /\ ~log_exists
    /\ last_position > 0
    /\ Checkpoint = last_position
    /\ \E u \in Uids : Stored(u)

\* the state file holds a number: after blanks at both ends are dropped, an
\* optional sign and digits only
HoldsNumber(st) ==
    /\ st.exists
    /\ \E lead \in {<<>>, <<" ">>} : \E sign \in {<<>>, <<"+">>, <<"-">>} :
       \E n \in Offsets : \E trail \in {<<>>, <<"\n">>} :
          st.text = lead \o sign \o Str(n) \o trail

\* the number a state file holds
NumberHeld(st) ==
    LET Holds(sign, n) ==
            \E lead \in {<<>>, <<" ">>} : \E trail \in {<<>>, <<"\n">>} :
                st.text = lead \o sign \o Str(n) \o trail
        digits == CHOOSE n \in Offsets :
                      \E sign \in {<<>>, <<"+">>, <<"-">>} : Holds(sign, n)
    IN  IF Holds(<<"-">>, digits) THEN 0 - digits ELSE digits

\* C30: main starts from the decimal offset held in the checkpoint file,
\* and from offset 0 when the file is absent, empty or does not hold a
\* valid decimal number (as after a crash in the middle of a checkpoint
\* write); a bad checkpoint file never prevents start-up.
C30_CheckpointLoad ==
    /\ [](pc = "stopped" => ENABLED MainLoad)
    /\ [][(pc = "stopped" /\ pc' = "poll") =>
             /\ HoldsNumber(state_text) =>
                   last_position' = NumberHeld(state_text)
             /\ ~HoldsNumber(state_text) => last_position' = 0
             /\ \A n \in Offsets :
                   state_text = [exists |-> TRUE, text |-> Str(n)] =>
                       last_position' = n]_vars

\* main has started at 0 on the empty file that a crash inside the
\* checkpoint write left behind
C30_Witness ==
    /\ pc = "poll"
    /\ state_text = [exists |-> TRUE, text |-> <<>>]
    /\ last_position = 0

\* C31: only complete lines are consumed: the persisted offset is 0 or the
\* position just after a line terminator, so a transaction whose line is
\* written in two writes is still decoded as one line and stored once the
\* loop has caught up with the complete file.
C31_OnlyCompleteLines ==
    /\ \/ Checkpoint = 0
       \/ \E i \in 1..Len(log_file) : LineEnd(log_file, i) = Checkpoint
    /\ (CaughtUp /\ unwritten = 0) =>
          \A i \in 1..Len(log_file) :
              WellFormed(log_file[i]) => Stored(log_file[i].uid)

\* the batch holds the result of a transaction without parsed timestamp
UntimedInBatch ==
    \E k \in 1..Len(events_to_commit) :
        events_to_commit[k].timestamp = NoTimestamp

\* C32: a transaction whose time_stamp is missing or not in the fixed
\* format is contained per line: no other transaction of its batch is
\* rolled back or left unstored, and the checkpoint still advances past
\* the batch.
C32_UntimedContained ==
    /\ []((pc = "committed" /\ UntimedInBatch) =>
            \A k \in 1..Len(events_to_commit) :
                events_to_commit[k].timestamp # NoTimestamp =>
                    Stored(events_to_commit[k].log_unique_id))
    /\ [][(InBatch /\ UntimedInBatch /\ pc' = "poll") =>
              LoadState(state_file') = new_position]_vars

\* the wait after the k-th failure of one call, in sixteenths of a second:
\* 5, 7.5, 11.25, 16.875, 25.3125 and then 30 seconds
WaitAfterFailure(k) ==
    CASE k = 1 -> 80
      [] k = 2 -> 120
      [] k = 3 -> 180
      [] k = 4 -> 270
      [] k = 5 -> 405
      [] k >= 6 -> 480

\* C33: within one call of get_db_session with the store unreachable at
\* most 10 attempts are made; the wait starts at 5 seconds, is multiplied by
\* 1.5 after each failure, never decreases and never exceeds 30 seconds;
\* the 10th failure raises without a further wait; once a session factory
\* exists no retry loop is entered.
C33_RetryBounds ==
    /\ [](/\ conn.retry_count <= 10
          /\ conn.at = "sleep" =>
                /\ conn.retry_count < 10
                /\ conn.retry_delay = WaitAfterFailure(conn.retry_count)
                /\ conn.retry_delay <= 30 * 16
          /\ conn.at = "raised" => conn.retry_count = 10
          /\ conn.SessionLocal => conn.at \in {"main", "session"})
    /\ [][/\ conn.at # "main" => conn'.retry_delay >= conn.retry_delay
          /\ (conn.at = "attempt" /\ conn'.retry_count = 10) =>
                conn'.at = "raised"
          /\ (conn.at = "main" /\ ~conn.SessionLocal /\ conn'.at # "main")
                => conn'.retry_delay = 5 * 16]_vars

\* the 10th attempt of a call has failed, after waits that reached the cap
C33_Witness ==
    /\ conn.at = "raised"
    /\ conn.retry_count = 10
    /\ conn.retry_delay = 30 * 16

\* C34: the number of built events accumulated and committed in one batch
\* never exceeds a fixed maximum, however large the unread suffix of the
\* file is: the largest backlog is processed as several batches, never as
\* one batch of all its lines.
C34_BoundedBatch == Len(events_to_commit) < MaxLines

\* the number embedded in one message: the value of the scoring message's
\* match text, and when that gives none, the value of the data field
EmbeddedValue(msg) ==
    IF msg.message = "score" /\ msg.match # <<>> /\ ParseInt(msg.match[1]) # <<>>
    THEN ParseInt(msg.match[1])
    ELSE IF msg.data.marker /\ msg.data.after # <<>>
                            /\ ParseInt(msg.data.after[1]) # <<>>
    THEN ParseInt(msg.data.after[1])
    ELSE <<>>

EmbeddedValues(messages) ==
    {EmbeddedValue(messages[i])[1] :
        i \in {k \in 1..Len(messages) : EmbeddedValue(messages[k]) # <<>>}}

LargestOf(S) == IF S = {} THEN 0 ELSE CHOOSE n \in S : \A m \in S : m <= n

\* C35: the reported anomaly_score is the largest number embedded in the
\* messages (match text of the scoring message, data field as fallback) and
\* 0 when there is none: never a sum, and the same for every order of the
\* messages.
C35_AnomalyScoreIsMax ==
    analysis.done =>
        analysis.anomaly_score = LargestOf(EmbeddedValues(transaction.messages))

IsEvaluationMatch(msg) == msg.ruleId \in EVALUATION_RULES

NotEvaluationMatch(msg) == ~IsEvaluationMatch(msg)

\* C36: a match of an evaluation rule (949110, 949111, 980130, 980140,
\* 980170) is always in the result's rule id list, and the attack type set
\* holds only what the other matches contribute, whatever the rule file of
\* the evaluation match is.
C36_EvaluationNeverTyped ==
    analysis.done =>
        /\ \A i \in 1..Len(transaction.messages) :
              IsEvaluationMatch(transaction.messages[i]) =>
                  \E k \in 1..Len(analysis.rule_ids) :
                      analysis.rule_ids[k] = transaction.messages[i].ruleId
        /\ analysis.attack_types =
              AttackTypes(SelectSeq(transaction.messages, NotEvaluationMatch))

\* a response status 403 with no violation among the matches and without
\* the blocking rule at a score of 5 or more
Bare403 ==
    /\ transaction.http_code = 403
    /\ \A i \in 1..Len(transaction.messages) :
          ~ActualViolation(transaction.messages[i])
    /\ ~(/\ \E i \in 1..Len(transaction.messages) :
               transaction.messages[i].ruleId = "949110"
         /\ BlockingScore(transaction.messages, 0) >= 5)

\* C37: a transaction with response status 403, no violation by a rule
\* outside the evaluation set and no blocking rule 949110 with a score of 5
\* or more is never reported as blocked.
C37_Bare403NotBlocked ==
    (analysis.done /\ Bare403) => ~analysis.is_blocked

\* a 403 whose matches are rule 949110 on an attack rule file and a
\* signature rule on a file that names no attack: analysed, not blocked
C37_Witness ==
    /\ analysis.done
    /\ Bare403
    /\ ~analysis.is_blocked
    /\ \E i \in 1..Len(transaction.messages) :
          /\ transaction.messages[i].ruleId = "949110"
          /\ transaction.messages[i].file = XssFile
    /\ \E i \in 1..Len(transaction.messages) :
          NonEvaluationMatch(transaction.messages[i])

\* C38: in every SecurityEvent built by parse_log_entry, attack_type is
\* null exactly when is_attack is false: each attack event carries a
\* specific or a generic label, and no benign event carries one.
C38_TypeIffAttack ==
    \A e \in event : (e.attack_type = NoType) <=> ~e.is_attack

\* an event of an attack without a classified type: it carries the generic
\* label
C38_Witness ==
    \E e \in event :
        /\ e.is_attack
        /\ e.attack_types = <<>>
        /\ e.attack_type \in {<<"ANOMALY">>, <<"SUSPICIOUS">>, <<"HIGH", "RISK">>}

\* the entry is blocked through the blocking rule: rule 949110 matched and
\* no attack violation came with a status 403
BlockedByRuleAlone ==
    /\ analysis.done
    /\ analysis.is_blocked
    /\ HasBlockingRule(transaction.messages)
    /\ ~(HasAttackViolations(transaction.messages)
         /\ transaction.http_code = 403)

\* C39: the anomaly score that _analyze_blocking_status extracts to decide
\* is_blocked equals the anomaly_score that _analyze_attack_indicators
\* reports, for every list of messages; so an event blocked through rule
\* 949110 without a 403 attack violation reports an anomaly_score of at
\* least 5.
C39_ScoreExtractionsAgree ==
    analysis.done =>
        /\ BlockingScore(transaction.messages, 0) = analysis.anomaly_score
        /\ BlockedByRuleAlone => analysis.anomaly_score >= 5

\* critical as the claim defines it: the bucket determine_severity
\* produced is high, or the event is blocked
HighOrBlocked(e) == e.severity = "high" \/ e.is_blocked

Forwarded(e) ==
    \A i \in 1..Len(active_connections) :
        [type |-> "critical_event", data |-> e]
            \in active_connections[i].received

NotForwarded(e) ==
    \A i \in 1..Len(active_connections) :
        [type |-> "critical_event", data |-> e]
            \notin active_connections[i].received

\* C40: each stored event whose severity bucket is high or whose is_blocked
\* flag is true is counted as critical by the notifier and, when its post
\* arrives, is sent to every connected client; an event that is neither is
\* sent to none.
C40_CriticalReachClients ==
    pc = "notified" =>
        /\ CriticalCount(new_events) =
              Cardinality({i \in 1..Len(new_events) :
                              HighOrBlocked(new_events[i])})
        /\ \A i \in 1..Len(new_events) :
              IF HighOrBlocked(new_events[i])
              THEN new_events[i] \in delivered => Forwarded(new_events[i])
              ELSE NotForwarded(new_events[i])
====
